---- MODULE Spec2Model ----
(***************************************************************************)
(* MetaBridge: the service registry (registry.py) shared through a         *)
(* multiprocessing.Manager, the server (metabridge/server.py) with its     *)
(* request loop, worker pool, instance cache and daemon supervisor, and    *)
(* the client (client.py).                                                 *)
(*                                                                         *)
(* Spec          the registry as seen by several OS processes              *)
(* SpecDispatch  the endpoint table of a ServiceServer, its start, stop    *)
(*               and freeze bit, and handle_request                        *)
(* SpecConn      one connection of a running server, byte by byte          *)
(* SpecPool      the accept loop and the worker pool                       *)
(* SpecCache     the sharded LRU cache of an instance-bound endpoint       *)
(* SpecClient    a ServiceClient shared by caller threads                  *)
(* SpecDaemon    DaemonServiceBuilder.run, the children it spawns and the  *)
(*               at-exit hook                                              *)
(* SpecStop      ServiceServer.stop with a worker on an open connection    *)
(* SpecWorkers   _compute_worker_count for every META_WORKERS text         *)
(* SpecFactories the factories of the endpoint names of one class          *)
(* SpecRace      two workers of the pool in one factory                    *)
(* SpecKeyed     the cache key of two calls                                *)
(* SpecHost      SpecDaemon for a service created with any host argument   *)
(***************************************************************************)
EXTENDS Integers, Sequences, FiniteSets, TLC

(***************************************************************************)
(* Bounds                                                                  *)
(***************************************************************************)
\* number of OS processes that use the registry (pids 1..NProcs)
NProcs == 2
Procs == 1..NProcs
\* a live process of another user: os.kill(pid, 0) raises PermissionError
ForeignPid == NProcs + 1
Names == {"demo"}
\* find_free_port: the port the server of process p was given
find_free_port(p) == 8000 + p
DEFAULT_HOST == "127.0.0.1"

\* the value None
None == "None"

VARIABLES
    procState,  \* pid -> "unborn" | "alive" | "dead"
    mgr,        \* pid -> the module global _manager: 0 (None) or a manager id
    registry,   \* manager id -> the manager's dict: name -> record dict
    pc,         \* pid -> "idle" | "call" (a registry call entered, at its lock)
    cur,        \* pid -> the call in progress
    last,       \* what the registry call that completed in the last step returned
                \*   or raised (NoRet when the last step completed no call)
    rival,      \* pid -> registers of the same name by other pids that
                \*        succeeded while this process's register is in flight
    handles     \* pid -> the DaemonHandles it holds: <<child pid, name>>

regVars == <<procState, mgr, registry, pc, cur, last, rival, handles>>

\* the state of one ServiceServer's endpoint table
VARIABLES
    table,      \* self._registry: the endpoint names, in insertion order
    request,    \* the request handle_request was called with last
    outcome,    \* what that call returned or raised, and the targets it invoked
    tick,       \* flips at every call of handle_request
    frozen,     \* self._frozen
    reg_error   \* the MetaBridgeError of the last register call, "" if none

dispVars == <<table, request, outcome, tick, frozen, reg_error>>

\* one connection of a running ServiceServer, handled by _handle_client
VARIABLES
    running,        \* self._running.is_set()
    spc,            \* where _handle_client is: "loop" | "recv_len" | "data" |
                    \*   "send" | "closed"
    sent,           \* the frames the peer has written to the socket, in order
    avail,          \* how many of their bytes have reached the server's socket
    rpos,           \* how many of those the server has read
    peerClosed,     \* the peer has shut its side of the connection
    message_length, \* the decoded length prefix of the message being read
    data,           \* the payload bytes read so far
    response,       \* the response handle_request returned, not yet sent
    s2c,            \* the frames the server has written to the socket, in order
    caught          \* the exception `except Exception` of _handle_client caught

connVars == <<running, spc, sent, avail, rpos, peerClosed, message_length, data,
              response, s2c, caught>>

\* the worker pool of a ServiceServer: a ThreadPoolExecutor
VARIABLES
    accepted,       \* how many connections _serve_loop has accepted
    work_queue,     \* the executor's queue: connections submitted, not started
    handling,       \* the connections a worker thread runs _handle_client on
    finished        \* the connections whose _handle_client returned

poolVars == <<accepted, work_queue, handling, finished>>

\* an _InstanceMethodFactory and the invocations made of it
VARIABLES
    cache_shards,   \* self._cache_shards: per shard, its <<key, instance>>
                    \* entries, the least recently used first
    instances,      \* how many instances self._cls(...) has constructed
    served,         \* the <<key, instance>> pairs the invocations got
    calls,          \* how many invocations were made
    last_used       \* the cached keys, the one accessed least recently first

cacheVars == <<cache_shards, instances, served, calls, last_used>>

\* a ServiceClient shared by caller threads, and a thread that closes it
VARIABLES
    _closed,        \* self._closed
    _socket_pool,   \* self._socket_pool: the idle sockets, a bounded queue
    socks,          \* the sockets the client created, by their number
    tpc,            \* per caller thread: where it is in its call
    sock,           \* per caller thread: the socket it holds, 0 for none
    tpayload,        \* per caller thread: the request of its call
    tout,            \* per caller thread: what its last call came to
    dropped,        \* per caller thread: the socket its last call failed on
    cpc             \* where the closing thread is in close()

clientVars == <<_closed, _socket_pool, socks, tpc, sock, tpayload, tout,
                dropped, cpc>>

\* what a step of the registry leaves alone
\* DaemonServiceBuilder.run in the parent process, and the children it spawns
VARIABLES
    rpc,              \* where run is: "idle", "await", "timeout", "returned",
                      \* "raised"; "atexit" and "exited" when the process ends
    daemons,          \* the children spawned, by the number of their handle:
                      \* "starting", "serving" or "dead"
    stopped,          \* the handles whose _stopped is set
    owner,            \* the pid of the registry entry of the service name
    _ACTIVE_DAEMONS,  \* the process-global list of handles
    _handle           \* self._handle of the builder, 0 for None

daemonVars == <<rpc, daemons, stopped, owner, _ACTIVE_DAEMONS, _handle>>

\* ServiceServer.stop of a running server
VARIABLES
    stop_pc     \* where stop is: "none", "shutdown" (in executor.shutdown),
                \* "returned"

\* _compute_worker_count and what it reads
VARIABLES
    workers_env,    \* os.environ.get("META_WORKERS"): whether it is set, its text
    cpu,            \* os.cpu_count(), 0 for None
    workers         \* what _compute_worker_count returned, -1 before the call

\* the endpoints of a service class T
VARIABLES
    factories,      \* endpoint name -> the _cache_shards of its factory
    answered        \* the <<endpoint, key, instance>> of the calls made

\* the pool's workers in one factory
VARIABLES
    wk,             \* worker -> where it is in create_func(key), and the key
    reply           \* the response to the call that ended last, its instance

\* the cache key of two calls
VARIABLES
    keyed           \* call -> its constructor arguments, key, shard, instance

\* the host of the service
VARIABLES
    host_arg,       \* the host given to create_service, None if none was
    published       \* the <<handle, host>> of the records the children published

hostVars == <<host_arg, published>>
moreVars == <<stop_pc, workers_env, cpu, workers, factories, answered, wk, reply,
              keyed, hostVars>>
notStop == <<workers_env, cpu, workers, factories, answered, wk, reply, keyed,
             hostVars>>
notWorkers == <<stop_pc, factories, answered, wk, reply, keyed, hostVars>>
notFactories == <<stop_pc, workers_env, cpu, workers, wk, reply, keyed, hostVars>>
notRace == <<stop_pc, workers_env, cpu, workers, factories, answered, keyed,
             hostVars>>
notKeyed == <<stop_pc, workers_env, cpu, workers, factories, answered, wk, reply,
              hostVars>>
notPublished == <<stop_pc, workers_env, cpu, workers, factories, answered, wk, reply,
                  keyed, host_arg>>

notRegVars == <<dispVars, connVars, poolVars, cacheVars, clientVars,
    daemonVars, moreVars>>
\* what a step of the endpoint table leaves alone
notDispVars == <<regVars, connVars, poolVars, cacheVars, clientVars,
    daemonVars, moreVars>>
\* what a step of the connection leaves alone
notConnVars == <<regVars, dispVars, poolVars, cacheVars, clientVars,
    daemonVars, moreVars>>
\* what a step of the worker pool leaves alone
notPoolVars == <<regVars, dispVars, connVars, cacheVars, clientVars,
    daemonVars, moreVars>>
notCacheVars == <<regVars, dispVars, connVars, poolVars, clientVars,
    daemonVars, moreVars>>
notClientVars == <<regVars, dispVars, connVars, poolVars, cacheVars,
    daemonVars, moreVars>>

vars == <<regVars, dispVars, connVars, poolVars, cacheVars, clientVars,
         daemonVars, moreVars>>

(***************************************************************************)
(* ServiceRecord and its dict form                                         *)
(***************************************************************************)
\* ServiceRecord(name, host, port, pid) as a tuple
ServiceRecord(name, host, port, pid) == <<name, host, port, pid>>

to_dict(record) ==
    [name |-> record[1], host |-> record[2], port |-> record[3], pid |-> record[4]]

from_dict(entry) == ServiceRecord(entry.name, entry.host, entry.port, entry.pid)

(***************************************************************************)
(* Liveness probe                                                          *)
(***************************************************************************)
\* the outcome of os.kill(pid, 0) for pid > 0
Probe(pid) ==
    IF pid = ForeignPid THEN "PermissionError"
    ELSE IF pid \in Procs /\ procState[pid] = "alive" THEN "ok"
    ELSE "OSError"

\* a probe for which permission denied is one more OSError
_is_process_alive_denied(pid, self) ==
    IF pid <= 0 THEN FALSE
    ELSE IF pid = self THEN TRUE
    ELSE CASE Probe(pid) = "PermissionError" -> FALSE
           [] Probe(pid) = "OSError" -> FALSE
           [] OTHER -> TRUE

_is_process_alive(pid, self) ==
    IF pid <= 0 THEN FALSE
    ELSE IF pid = self THEN TRUE
    ELSE CASE Probe(pid) = "PermissionError" -> TRUE
           [] Probe(pid) = "OSError" -> FALSE
           [] OTHER -> TRUE

\* ground truth: a process with this pid exists on the host
ProcessExists(pid) ==
    \/ pid = ForeignPid
    \/ pid \in Procs /\ procState[pid] = "alive"

(***************************************************************************)
(* Initial state: process 1 runs, no process has touched the registry yet  *)
(***************************************************************************)
\* an Optional[ServiceRecord] / Optional[int] that is None
NoRecord == <<>>
NoPid == <<>>

\* a manager's dict before any write
EmptyDict == [x \in {} |-> None]

Idle == [op |-> "idle", via |-> "api", name |-> None, record |-> NoRecord, expected |-> NoPid]
\* a return value, or an exception with what its message says
Returned(v) == [status |-> "ok", msg |-> "", value |-> v]
Raised(exc, msg) == [status |-> exc, msg |-> msg, value |-> NoRecord]
NoRet == [op |-> "idle", by |-> 0, expected |-> NoPid, status |-> "none", msg |-> "",
          value |-> NoRecord]

InitRegistry ==
    /\ procState = [p \in Procs |-> IF p = 1 THEN "alive" ELSE "unborn"]
    /\ mgr = [p \in Procs |-> 0]
    /\ registry = [m \in Procs |-> EmptyDict]
    /\ pc = [p \in Procs |-> "idle"]
    /\ cur = [p \in Procs |-> Idle]
    /\ last = NoRet
    /\ rival = [p \in Procs |-> {}]
    /\ handles = [p \in Procs |-> {}]

(***************************************************************************)
(* The manager: module globals _manager, _registry, _lock                  *)
(***************************************************************************)
\* one manager for the whole host, whichever process asks first
_get_manager_shared(p) == IF mgr[p] = 0 THEN 1 ELSE mgr[p]

\* _get_manager: the manager this process uses after the call; a process
\* whose _manager is None starts a manager of its own (named by its pid)
_get_manager(p) == IF mgr[p] = 0 THEN p ELSE mgr[p]

\* dict operations on a manager's dict
DictSet(d, k, v) == [x \in DOMAIN d \cup {k} |-> IF x = k THEN v ELSE d[x]]
DictDel(d, k) == [x \in DOMAIN d \ {k} |-> d[x]]

\* a call enters: registry = _get_registry(); lock = _get_lock(); it then
\* waits at `with lock:`
Enter(p, call) ==
    /\ procState[p] = "alive"
    /\ pc[p] = "idle"
    /\ mgr' = [mgr EXCEPT ![p] = _get_manager(p)]
    /\ cur' = [cur EXCEPT ![p] = call]
    /\ pc' = [pc EXCEPT ![p] = "call"]
    /\ rival' = [rival EXCEPT ![p] = {}]

\* the body of `with lock:` is one step: the lock is taken, the body runs and
\* the lock is released by the return or the exception
InLock(p, op) ==
    /\ procState[p] = "alive"
    /\ pc[p] = "call"
    /\ cur[p].op = op

Leave(p, result) ==
    /\ last' = [op |-> cur[p].op, by |-> p, expected |-> cur[p].expected,
                status |-> result.status, msg |-> result.msg, value |-> result.value]
    /\ pc' = [pc EXCEPT ![p] = "idle"]
    /\ cur' = [cur EXCEPT ![p] = Idle]

\* process q has a register of name n for a pid other than `pid` in flight
InFlightRegister(q, n, pid) ==
    /\ pc[q] # "idle"
    /\ cur[q].op = "register"
    /\ cur[q].name = n
    /\ cur[q].record[4] # pid

\* rival once the entry of name n in manager m is removed
Withdrawn(m, n) ==
    [q \in Procs |->
        IF pc[q] # "idle" /\ cur[q].op = "register" /\ cur[q].name = n
        THEN {x \in rival[q] : x[1] # m} ELSE rival[q]]

(***************************************************************************)
(* register_service                                                        *)
(***************************************************************************)
\* the pids a caller puts in a record: its own (publish uses os.getpid())
RecordPids(p) == {p}

register_service(p, record) ==
    /\ Enter(p, [op |-> "register", via |-> "api", name |-> record[1],
                 record |-> record, expected |-> NoPid])
    /\ last' = NoRet
    /\ UNCHANGED <<procState, registry, handles>>

\* lines 80-87: the conflict test
register_conflict_any_owner(p) ==
    LET r == registry[mgr[p]]
        record == cur[p].record
    IN  /\ record[1] \in DOMAIN r
        /\ r[record[1]].pid # record[4]

register_conflict(p) ==
    LET r == registry[mgr[p]]
        record == cur[p].record
    IN  /\ record[1] \in DOMAIN r
        /\ r[record[1]].pid # record[4]
        /\ _is_process_alive(r[record[1]].pid, p)

\* lines 79-89, under the lock
register_body(p) ==
    LET m == mgr[p]
        record == cur[p].record
    IN  /\ InLock(p, "register")
        /\ IF register_conflict(p)
           THEN /\ Leave(p, Raised("ServiceAlreadyExists", "already registered"))
                /\ UNCHANGED <<registry, rival>>
           ELSE /\ registry' = [registry EXCEPT ![m] =
                        DictSet(registry[m], record[1], to_dict(record))]
                /\ Leave(p, Returned(NoRecord))
                /\ rival' = [q \in Procs |->
                        IF q # p /\ InFlightRegister(q, record[1], record[4])
                        THEN rival[q] \cup {<<m, record[4]>>} ELSE rival[q]]
        /\ UNCHANGED <<procState, mgr, handles>>

(***************************************************************************)
(* unregister_service                                                      *)
(***************************************************************************)
unregister_service(p, name, expected_pid) ==
    /\ Enter(p, [op |-> "unregister", via |-> "api", name |-> name,
                 record |-> NoRecord, expected |-> expected_pid])
    /\ last' = NoRet
    /\ UNCHANGED <<procState, registry, handles>>

\* lines 97-105: whether the entry is deleted
unregister_removes_any(p) == cur[p].name \in DOMAIN registry[mgr[p]]

unregister_removes(p) ==
    LET r == registry[mgr[p]]
        name == cur[p].name
        expected_pid == cur[p].expected
    IN  /\ name \in DOMAIN r
        /\ expected_pid # NoPid => r[name].pid = expected_pid[1]

\* lines 96-105, under the lock
unregister_body(p) ==
    LET m == mgr[p]
        name == cur[p].name
    IN  /\ InLock(p, "unregister")
        /\ IF unregister_removes(p)
           THEN /\ registry' = [registry EXCEPT ![m] = DictDel(registry[m], name)]
                /\ rival' = Withdrawn(m, name)
           ELSE UNCHANGED <<registry, rival>>
        /\ Leave(p, Returned(NoRecord))
        \* DaemonHandle.stop: self._stopped = True
        /\ handles' = [handles EXCEPT ![p] =
                IF cur[p].via = "handle_stop"
                THEN handles[p] \ {<<cur[p].expected[1], name>>} ELSE handles[p]]
        /\ UNCHANGED <<procState, mgr>>

(***************************************************************************)
(* resolve_service                                                         *)
(***************************************************************************)
resolve_service(p, name) ==
    /\ Enter(p, [op |-> "resolve", via |-> "api", name |-> name,
                 record |-> NoRecord, expected |-> NoPid])
    /\ last' = NoRet
    /\ UNCHANGED <<procState, registry, handles>>

\* line 120: del registry[name]
resolve_evict_keep(r, name) == r

resolve_evict(r, name) == DictDel(r, name)

\* lines 112-125, under the lock
resolve_body(p) ==
    LET m == mgr[p]
        r == registry[m]
        name == cur[p].name
    IN  /\ InLock(p, "resolve")
        /\ IF name \notin DOMAIN r
           THEN /\ Leave(p, Raised("ServiceNotFound", "not found"))
                /\ UNCHANGED <<registry, rival>>
           ELSE LET record == from_dict(r[name])
                IN  IF ~ _is_process_alive(record[4], p)
                    THEN /\ registry' = [registry EXCEPT ![m] = resolve_evict(r, name)]
                         /\ rival' = Withdrawn(m, name)
                         /\ Leave(p, Raised("ServiceNotFound", "stale"))
                    ELSE /\ Leave(p, Returned(record))
                         /\ UNCHANGED <<registry, rival>>
        /\ UNCHANGED <<procState, mgr, handles>>

(***************************************************************************)
(* Processes                                                               *)
(***************************************************************************)
\* pids are handed out in ascending order: a new process gets the lowest unused
NextPid(p) == procState[p] = "unborn" /\ \A q \in Procs : q < p => procState[q] # "unborn"

\* the memory of a process that ended is gone
Gone(q, f, init) == [f EXCEPT ![q] = init]

\* an unrelated process starts and imports the registry module: _manager = None
ColdStart(p) ==
    /\ NextPid(p)
    /\ procState' = [procState EXCEPT ![p] = "alive"]
    /\ last' = NoRet
    /\ UNCHANGED <<mgr, registry, pc, cur, rival, handles>>

\* _spawn_daemon_process: a "fork" child inherits the parent's module globals,
\* a "spawn" child imports the module afresh; run keeps a DaemonHandle
_spawn_daemon_process(p, child, ctx, name) ==
    /\ procState[p] = "alive"
    /\ pc[p] = "idle"
    /\ NextPid(child)
    /\ procState' = [procState EXCEPT ![child] = "alive"]
    /\ mgr' = [mgr EXCEPT ![child] = IF ctx = "fork" THEN mgr[p] ELSE 0]
    /\ handles' = [handles EXCEPT ![p] = handles[p] \cup {<<child, name>>}]
    /\ last' = NoRet
    /\ UNCHANGED <<registry, pc, cur, rival>>

\* a process ends (exit or kill)
Exit(p) ==
    /\ procState[p] = "alive"
    /\ procState' = [procState EXCEPT ![p] = "dead"]
    /\ pc' = Gone(p, pc, "idle")
    /\ cur' = Gone(p, cur, Idle)
    /\ rival' = Gone(p, rival, {})
    /\ handles' = Gone(p, handles, {})
    /\ last' = NoRet
    /\ UNCHANGED <<mgr, registry>>

(***************************************************************************)
(* ServiceServer.stop and DaemonHandle.stop: their unregister step         *)
(***************************************************************************)
\* ServiceServer.stop, lines 298-300, of a server that published under
\* pid = os.getpid() (publish, lines 313-316)
ServiceServer_stop(p, name) ==
    /\ Enter(p, [op |-> "unregister", via |-> "server_stop", name |-> name,
                 record |-> NoRecord, expected |-> <<p>>])
    /\ last' = NoRet
    /\ UNCHANGED <<procState, registry, handles>>

\* DaemonHandle.stop, lines 563-569: terminate and join the child, then
\* unregister_service(self._service_name, expected_pid=self.pid)
DaemonHandle_stop(p, h) ==
    /\ procState[p] = "alive"
    /\ pc[p] = "idle"
    /\ h \in handles[p]
    /\ procState' = [procState EXCEPT ![h[1]] = "dead"]
    /\ mgr' = [mgr EXCEPT ![p] = _get_manager(p)]
    /\ pc' = [Gone(h[1], pc, "idle") EXCEPT ![p] = "call"]
    /\ cur' = [Gone(h[1], cur, Idle) EXCEPT ![p] =
            [op |-> "unregister", via |-> "handle_stop", name |-> h[2],
             record |-> NoRecord, expected |-> <<h[1]>>]]
    /\ rival' = [Gone(h[1], rival, {}) EXCEPT ![p] = {}]
    /\ handles' = Gone(h[1], handles, {})
    /\ last' = NoRet
    /\ UNCHANGED registry

NextRegistry ==
    \/ /\ \E p \in Procs, n \in Names, pid \in 0..ForeignPid :
             /\ pid \in RecordPids(p)
             /\ register_service(p, ServiceRecord(n, DEFAULT_HOST, find_free_port(p), pid))
       /\ UNCHANGED notRegVars
    \/ /\ \E p \in Procs : register_body(p)
       /\ UNCHANGED notRegVars
    \/ /\ \E p \in Procs, n \in Names, e \in {NoPid} \cup {<<x>> : x \in Procs} :
             unregister_service(p, n, e)
       /\ UNCHANGED notRegVars
    \/ /\ \E p \in Procs : unregister_body(p)
       /\ UNCHANGED notRegVars
    \/ /\ \E p \in Procs, n \in Names : resolve_service(p, n)
       /\ UNCHANGED notRegVars
    \/ /\ \E p \in Procs : resolve_body(p)
       /\ UNCHANGED notRegVars
    \/ /\ \E p \in Procs, n \in Names : ServiceServer_stop(p, n)
       /\ UNCHANGED notRegVars
    \/ /\ \E p \in Procs : \E h \in handles[p] : DaemonHandle_stop(p, h)
       /\ UNCHANGED notRegVars
    \/ /\ \E p \in Procs : ColdStart(p)
       /\ UNCHANGED notRegVars
    \/ /\ \E p, child \in Procs, ctx \in {"fork", "spawn"}, n \in Names :
             _spawn_daemon_process(p, child, ctx, n)
       /\ UNCHANGED notRegVars
    \/ /\ \E p \in Procs : Exit(p)
       /\ UNCHANGED notRegVars


(***************************************************************************)
(* Properties of the registry                                              *)
(***************************************************************************)
\* this step is process p returning from (or raising out of) the call `op`
Completes(p, op) ==
    /\ pc[p] = "call"
    /\ cur[p].op = op
    /\ pc'[p] = "idle"
    /\ procState'[p] = "alive"

\* the entry the caller's registry holds for the name of its call, as a
\* set: empty when there is none
Held(p) ==
    LET r == registry[mgr[p]]
    IN  IF cur[p].name \in DOMAIN r THEN {r[cur[p].name]} ELSE {}

\* C1: register(record) raises ServiceAlreadyExists exactly when the registry
\* holds an entry for record.name whose owner pid differs from record.pid and
\* is a live process; otherwise it returns and the registry maps record.name
\* to record.
C1_RegisterOutcome ==
    [][\A p \in Procs : Completes(p, "register") =>
        LET record == cur[p].record
            liveOther == \E d \in Held(p) : d.pid # record[4] /\ ProcessExists(d.pid)
        IN  IF liveOther
            THEN last'.status = "ServiceAlreadyExists"
            ELSE /\ last'.status = "ok"
                 /\ record[1] \in DOMAIN registry'[mgr[p]]
                 /\ from_dict(registry'[mgr[p]][record[1]]) = record]_regVars

\* a register was refused, and another one replaced the entry of a dead owner
C1_Witness ==
    /\ last.op = "register"
    /\ last.status = "ServiceAlreadyExists"
    /\ \E m \in Procs : \E n \in DOMAIN registry[m] :
          registry[m][n].pid # last.by /\ ProcessExists(registry[m][n].pid)

\* C2: resolve(name) on an entry whose owner is dead raises ServiceNotFound and
\* the entry is gone afterwards; a resolve never returns the record of a dead
\* owner; a resolve on an entry with a live owner returns the stored record
\* and leaves the registry unchanged.
C2_ResolveEvictsStale ==
    [][\A p \in Procs : Completes(p, "resolve") =>
        /\ \A d \in Held(p) :
              IF ProcessExists(d.pid)
              THEN /\ last'.status = "ok"
                   /\ last'.value = ServiceRecord(d.name, d.host, d.port, d.pid)
                   /\ registry' = registry
              ELSE /\ last'.status = "ServiceNotFound"
                   /\ cur[p].name \notin DOMAIN registry'[mgr[p]]
        /\ last'.status = "ok" => \E d \in Held(p) : ProcessExists(d.pid)]_regVars

\* a resolve found a stale entry: it raised and the name is in no registry
\* the caller uses
C2_Witness ==
    /\ last.op = "resolve"
    /\ last.status = "ServiceNotFound"
    /\ last.msg = "stale"
    /\ "demo" \notin DOMAIN registry[mgr[last.by]]

\* C3: unregister(name, expected_pid) removes the entry only when the stored
\* owner pid equals expected_pid and otherwise leaves the registry unchanged;
\* ServiceServer.stop and DaemonHandle.stop always give an expected pid (their
\* own pid, the pid of the handle's child), so they remove no entry of
\* another owner.
C3_UnregisterExpectedPid ==
    [][\A p \in Procs : Completes(p, "unregister") =>
        LET e == cur[p].expected
            name == cur[p].name
        IN  /\ cur[p].via = "server_stop" => e = <<p>>
            /\ cur[p].via = "handle_stop" => e # NoPid /\ <<e[1], name>> \in handles[p]
            /\ e # NoPid =>
                 /\ \A d \in Held(p) :
                       IF d.pid = e[1]
                       THEN registry' = [registry EXCEPT ![mgr[p]] = DictDel(registry[mgr[p]], name)]
                       ELSE registry' = registry
                 /\ Held(p) = {} => registry' = registry]_regVars

\* an unregister with an expected pid returned and the entry of another owner
\* is still there
C3_Witness ==
    /\ last.op = "unregister"
    /\ last.expected # NoPid
    /\ "demo" \in DOMAIN registry[mgr[last.by]]
    /\ registry[mgr[last.by]]["demo"].pid # last.expected[1]

\* C4: when two processes with distinct live pids register the same name
\* concurrently, one of them fails with ServiceAlreadyExists: a register
\* during which a register of the same name by another pid succeeded, whose
\* entry was not withdrawn and whose owner is alive, does not succeed.
C4_ConcurrentRegisterOneWins ==
    [][\A p \in Procs : Completes(p, "register") =>
        ((\E x \in rival[p] : ProcessExists(x[2]))
            => last'.status = "ServiceAlreadyExists")]_regVars

\* C5: a record published by one process is returned by resolve(name) called
\* from any other process on the host while the owner is alive.
Published(n) ==
    {registry[m][n] : m \in {x \in Procs : n \in DOMAIN registry[x]}}

C5_ResolveSeesPublished ==
    [][\A p \in Procs : Completes(p, "resolve") =>
        LET live == {d \in Published(cur[p].name) : d.pid # p /\ ProcessExists(d.pid)}
        IN  live # {} =>
              /\ last'.status = "ok"
              /\ \E d \in live : last'.value = ServiceRecord(d.name, d.host, d.port, d.pid)]_regVars

(***************************************************************************)
(* ServiceServer: the endpoint table and handle_request                    *)
(***************************************************************************)
\* the names functions are registered under
EndpointNames == {"b", "ab", "a"}
\* a key the request map does not have
Missing == "<missing>"

\* the code points of a name: str values compare by code point
ord(name) ==
    CASE name = "a" -> <<97>>
      [] name = "ab" -> <<97, 98>>
      [] name = "b" -> <<98>>
      [] name = "zz" -> <<122, 122>>
      [] name = "None" -> <<78, 111, 110, 101>>

\* s < t for two strings
str_lt(s, t) ==
    LET a == ord(s)
        b == ord(t)
    IN  \E k \in 1..(Len(b)) :
          /\ \A i \in 1..(k - 1) : i <= Len(a) /\ a[i] = b[i]
          /\ \/ k > Len(a)
             \/ k <= Len(a) /\ a[k] < b[k]

\* what the function registered under a name does when it is called
Target(name) ==
    CASE name = "a" -> "raises"
      [] name = "ab" -> "object"
      [] name = "b" -> "echo"

\* values a result can be: an int, or an object msgpack cannot encode
IntValue(v) == [kind |-> "int", v |-> v]
ObjectValue == [kind |-> "object", v |-> 0]
NoValue == [kind |-> "none", v |-> 0]

\* request.get("args", []): a list of one int, or a value list() rejects
ListArg(v) == [shape |-> "list", items |-> <<v>>]
IntArg == [shape |-> "int", items |-> <<>>]
\* request.get("kwargs", {}) is "map", or "int", a value dict() rejects

\* the decoded payloads: a value that is not a map, or a map
NotAMap ==
    [ismap |-> FALSE, type |-> Missing, endpoint |-> Missing,
     args |-> ListArg(1), kwargs |-> "map"]
Command(type) ==
    [ismap |-> TRUE, type |-> type, endpoint |-> Missing,
     args |-> ListArg(1), kwargs |-> "map"]
Call(endpoint, args, kwargs) ==
    [ismap |-> TRUE, type |-> "call", endpoint |-> endpoint,
     args |-> args, kwargs |-> kwargs]
Requests ==
    {NotAMap} \cup {Command(t) : t \in {"list_endpoints", "bogus", Missing}}
    \cup {Call(e, a, k) : e \in EndpointNames \cup {"zz", Missing},
                          a \in {ListArg(1), ListArg(2), IntArg},
                          k \in {"map", "int"}}

\* sorted(): a stable ascending sort by str comparison
RECURSIVE insort(_, _)
insort(sortedSeq, name) ==
    IF sortedSeq = <<>> THEN <<name>>
    ELSE IF str_lt(name, Head(sortedSeq)) THEN <<name>> \o sortedSeq
         ELSE <<Head(sortedSeq)>> \o insort(Tail(sortedSeq), name)

RECURSIVE sorted_from(_, _)
sorted_from(acc, rest) ==
    IF rest = <<>> THEN acc ELSE sorted_from(insort(acc, Head(rest)), Tail(rest))

\* list(keys) without the sort
unsorted(keys) == keys

sorted(keys) == sorted_from(<<>>, keys)

Range(seq) == {seq[i] : i \in DOMAIN seq}

\* responses, and the outcome of a call of handle_request
OkNames(names) == [status |-> "ok", names |-> names, result |-> NoValue, etype |-> ""]
OkResult(v) == [status |-> "ok", names |-> <<>>, result |-> v, etype |-> ""]
Error(etype) == [status |-> "error", names |-> <<>>, result |-> NoValue, etype |-> etype]
NoResponse == [status |-> "none", names |-> <<>>, result |-> NoValue, etype |-> ""]
Returns(resp, invoked) == [raised |-> "", response |-> resp, invoked |-> invoked]
Raises(exc, invoked) == [raised |-> exc, response |-> NoResponse, invoked |-> invoked]

\* str(request.get("endpoint"))
str(v) == IF v = Missing THEN "None" ELSE v

\* RegisteredFunction.invoke: target(*args, **kwargs)
invoke(name, args) ==
    CASE Target(name) = "echo" -> [raised |-> "", value |-> IntValue(args.items[1])]
      [] Target(name) = "object" -> [raised |-> "", value |-> ObjectValue]
      [] Target(name) = "raises" -> [raised |-> "ValueError", value |-> NoValue]

\* list(request.get("args", [])) and dict(request.get("kwargs", {})): the
\* exception the conversions raise, "" when they succeed
convert(req) ==
    IF req.args.shape # "list" \/ req.kwargs # "map" THEN "TypeError" ELSE ""

\* request.get on a value that is not a map
get_type(req) == IF req.ismap THEN "" ELSE "AttributeError"

\* self._registry.get(endpoint): <<>> is None
lookup(tbl, endpoint) == IF endpoint \in Range(tbl) THEN <<endpoint>> ELSE <<>>

handle_request(tbl, req) ==
    IF get_type(req) # "" THEN Raises(get_type(req), {})
    ELSE IF req.type = "list_endpoints" THEN Returns(OkNames(sorted(tbl)), {})
    ELSE IF req.type # "call" THEN Returns(Error("ProtocolError"), {})
    ELSE IF convert(req) # "" THEN Raises(convert(req), {})
    ELSE LET endpoint == str(req.endpoint)
             callable_entry == lookup(tbl, endpoint)
         IN  IF callable_entry = <<>> THEN Returns(Error("NotFound"), {})
             ELSE LET name == callable_entry[1]
                      res == invoke(name, req.args)
                  IN  IF res.raised # "" THEN Returns(Error(res.raised), {name})
                      ELSE Returns(OkResult(res.value), {name})

InitDispatch ==
    /\ table = <<>>
    /\ request = NotAMap
    /\ outcome = Returns(NoResponse, {})
    /\ tick = FALSE
    /\ frozen = FALSE
    /\ reg_error = ""

\* ServiceServer.register without its test of self._frozen
register_thawed(name) ==
    /\ IF name \in Range(table)
          THEN /\ reg_error' = "already registered"
               /\ UNCHANGED table
          ELSE /\ reg_error' = ""
               /\ table' = Append(table, name)
    /\ UNCHANGED <<request, outcome, tick, frozen>>

\* ServiceServer.register: it raises when the table is frozen or has the name
register(name) ==
    /\ IF frozen
          THEN /\ reg_error' = "running as a daemon"
               /\ UNCHANGED table
          ELSE IF name \in Range(table)
          THEN /\ reg_error' = "already registered"
               /\ UNCHANGED table
          ELSE /\ reg_error' = ""
               /\ table' = Append(table, name)
    /\ UNCHANGED <<request, outcome, tick, frozen>>

\* one call of handle_request
Dispatch(req) ==
    /\ request' = req
    /\ outcome' = handle_request(table, req)
    /\ tick' = ~tick
    /\ UNCHANGED <<table, frozen, reg_error>>

NextDispatch ==
    \/ /\ \E name \in EndpointNames : register(name)
       /\ UNCHANGED notDispVars
    \/ /\ \E req \in Requests : Dispatch(req)
       /\ UNCHANGED notDispVars

(***************************************************************************)
(* Properties of handle_request                                            *)
(***************************************************************************)
\* the step is a call of handle_request
Handled == tick' # tick

\* C6: a list_endpoints request is answered with status ok and exactly the
\* names registered in the endpoint table, each once, in ascending order.
C6_ListEndpointsSorted ==
    [][(Handled /\ request'.ismap /\ request'.type = "list_endpoints") =>
        LET names == outcome'.response.names
        IN  /\ outcome'.raised = ""
            /\ outcome'.response.status = "ok"
            /\ Range(names) = Range(table)
            /\ \A i, j \in DOMAIN names : i < j => str_lt(names[i], names[j])]_vars

\* three endpoints registered in an order that is not ascending were listed
C6_Witness ==
    /\ request.ismap
    /\ request.type = "list_endpoints"
    /\ outcome.response.status = "ok"
    /\ Len(outcome.response.names) = Cardinality(EndpointNames)
    /\ Range(table) = Range(outcome.response.names)
    /\ table # outcome.response.names

\* C7: handle_request invokes no target for a request it cannot dispatch: a
\* map whose type is neither list_endpoints nor call is answered with an
\* error of type ProtocolError, and a call of an endpoint that is not in the
\* table is answered with an error of type NotFound.
C7_UndispatchableNeverInvokes ==
    [][(Handled /\ request'.ismap) =>
        /\ request'.type \notin {"list_endpoints", "call"} =>
              outcome' = Returns(Error("ProtocolError"), {})
        /\ (request'.type = "call" /\ str(request'.endpoint) \notin Range(table)) =>
              outcome' = Returns(Error("NotFound"), {})]_vars

(***************************************************************************)
(* The wire format: a 4-byte big-endian length, then a msgpack payload     *)
(***************************************************************************)
\* struct.pack("!I", n)
pack_I(n) ==
    <<(n \div (2^24)) % 256, (n \div (2^16)) % 256, (n \div 256) % 256, n % 256>>

\* struct.unpack("!I", b)[0] of exactly four bytes
unpack_I(b) == b[1] * (2^24) + b[2] * (2^16) + b[3] * 256 + b[4]

\* the msgpack encoding, one byte per item: the first byte is the container
\* (0x80 + n, a map of n entries; 0x90, an empty array), an entry is a byte
\* 16 * key + value
Code(x) ==
    CASE x \in {"type", "list_endpoints", "a", "ProtocolError"} -> 1
      [] x \in {"endpoint", "call", "ab", "NotFound"} -> 2
      [] x \in {"args", "bogus", "b", "ValueError"} -> 3
      [] OTHER -> 4
Entry(key, code) == 16 * Code(key) + code

\* msgpack.packb of a request (what a client writes)
packb_request(req) ==
    IF ~req.ismap THEN <<144>>
    ELSE IF req.type = Missing THEN <<128>>
    ELSE IF req.type # "call" THEN <<129, Entry("type", Code(req.type))>>
    ELSE LET args == Entry("args", IF req.args.shape = "list" THEN req.args.items[1] ELSE 3)
             kwargs == Entry("kwargs", IF req.kwargs = "map" THEN 1 ELSE 2)
         IN  IF req.endpoint = Missing
             THEN <<131, Entry("type", Code(req.type)), args, kwargs>>
             ELSE <<132, Entry("type", Code(req.type)),
                    Entry("endpoint", Code(req.endpoint)), args, kwargs>>

\* msgpack.unpackb(data): <<request>>, or <<>> when it raises
unpackb(bytes) ==
    IF \E req \in Requests : packb_request(req) = bytes
    THEN <<CHOOSE req \in Requests : packb_request(req) = bytes>>
    ELSE <<>>

\* msgpack.packb of a response: <<bytes>>, or <<>> when it raises TypeError
\* (a result msgpack has no encoding for)
packb(resp) ==
    IF resp.status = "error" THEN <<<<130, 2, Code(resp.etype)>>>>
    ELSE IF resp.result.kind = "object" THEN <<>>
    ELSE IF resp.result.kind = "int" THEN <<<<130, 1, resp.result.v>>>>
    ELSE <<<<130, 1, 144 + Len(resp.names)>>
           \o [i \in 1..Len(resp.names) |-> Code(resp.names[i])]>>

\* a frame: the length prefix and the payload
Frame(payload) == pack_I(Len(payload)) \o payload

(***************************************************************************)
(* _handle_client: the request loop of one connection                      *)
(***************************************************************************)
\* frames a peer writes on one connection
MaxReqs == 2
\* the most one recv of the payload loop asks for
MaxChunk == 4096
\* the maximum message size the receiver is to enforce (64 MiB)
MaxMessageBytes == 64 * 1024 * 1024

\* the endpoint table of the running server: three functions were registered
ServedTable == <<"b", "ab", "a">>

\* a frame whose prefix announces more than the maximum, and the first byte
\* of its payload
Oversized == pack_I(MaxMessageBytes + 1) \o <<193>>

\* what a peer writes: requests a client encodes, or the oversized frame
PeerRequests ==
    {Command("list_endpoints"), Call("b", ListArg(1), "map"),
     Call("a", ListArg(1), "map"), Call("ab", ListArg(1), "map"),
     Call("b", IntArg, "map"), NotAMap}
PeerFrames == {Frame(packb_request(req)) : req \in PeerRequests} \cup {Oversized}

\* the bytes of the frames, in the order written
RECURSIVE Stream(_)
Stream(frames) == IF frames = <<>> THEN <<>> ELSE Head(frames) \o Stream(Tail(frames))

\* socket.recv(n) once bytes are there: at most n of the bytes that arrived
recv(n) ==
    LET k == IF n < avail - rpos THEN n ELSE avail - rpos
    IN  SubSeq(Stream(sent), rpos + 1, rpos + k)

\* recv blocks until bytes arrive or the peer's end of stream does
CanRecv == avail > rpos
AtEof == peerClosed /\ rpos = Len(Stream(sent))

InitConn ==
    /\ running = TRUE
    /\ spc = "loop"
    /\ sent = <<>>
    /\ avail = 0
    /\ rpos = 0
    /\ peerClosed = FALSE
    /\ message_length = 0
    /\ data = <<>>
    /\ response = NoResponse
    /\ s2c = <<>>
    /\ caught = ""

\* the peer writes a frame
PeerSend(frame) ==
    /\ spc # "closed"
    /\ ~peerClosed
    /\ Len(sent) < MaxReqs
    /\ sent' = Append(sent, frame)
    /\ UNCHANGED <<running, spc, avail, rpos, peerClosed, message_length, data,
                   response, s2c, caught>>

\* the transport hands the server n more bytes
Deliver(n) ==
    /\ spc # "closed"
    /\ avail + n <= Len(Stream(sent))
    /\ avail' = avail + n
    /\ UNCHANGED <<running, spc, sent, rpos, peerClosed, message_length, data,
                   response, s2c, caught>>

\* the peer closes its socket
PeerClose ==
    /\ spc # "closed"
    /\ ~peerClosed
    /\ peerClosed' = TRUE
    /\ UNCHANGED <<running, spc, sent, avail, rpos, message_length, data,
                   response, s2c, caught>>

\* ServiceServer.stop, line 276
clear_running ==
    /\ running
    /\ running' = FALSE
    /\ UNCHANGED <<spc, sent, avail, rpos, peerClosed, message_length, data,
                   response, s2c, caught>>

\* the connection ends: `break`, the loop condition, or `except Exception`
\* (exc names what was caught), then `finally: client_socket.close()`
close(exc) ==
    /\ spc' = "closed"
    /\ caught' = exc
    /\ message_length' = 0
    /\ data' = <<>>
    /\ response' = NoResponse

\* while self._running.is_set()
loop_test ==
    /\ spc = "loop"
    /\ IF running
       THEN /\ spc' = "recv_len"
            /\ UNCHANGED <<message_length, data, response, caught>>
       ELSE close("")
    /\ UNCHANGED <<running, sent, avail, rpos, peerClosed, s2c>>

\* length_bytes = client_socket.recv(4); struct.unpack("!I", length_bytes)
recv_length ==
    /\ spc = "recv_len"
    /\ \/ /\ CanRecv
          /\ LET length_bytes == recv(4)
             IN  /\ rpos' = rpos + Len(length_bytes)
                 /\ IF Len(length_bytes) # 4
                    THEN close("error")
                    ELSE /\ message_length' = unpack_I(length_bytes)
                         /\ data' = <<>>
                         /\ spc' = "data"
                         /\ UNCHANGED <<response, caught>>
       \/ /\ ~CanRecv
          /\ AtEof
          /\ close("")
          /\ UNCHANGED rpos
    /\ UNCHANGED <<running, sent, avail, peerClosed, s2c>>

\* one pass of `while len(data) < message_length`
recv_data ==
    /\ spc = "data"
    /\ Len(data) < message_length
    /\ \/ /\ CanRecv
          /\ LET want == message_length - Len(data)
                 chunk == recv(IF MaxChunk < want THEN MaxChunk ELSE want)
             IN  /\ data' = data \o chunk
                 /\ rpos' = rpos + Len(chunk)
          /\ UNCHANGED <<spc, message_length, response, caught>>
       \/ /\ ~CanRecv
          /\ AtEof
          /\ close("")
          /\ UNCHANGED rpos
    /\ UNCHANGED <<running, sent, avail, peerClosed, s2c>>

\* request = msgpack.unpackb(data); response = self.handle_request(request)
process ==
    /\ spc = "data"
    /\ Len(data) >= message_length
    /\ LET decoded == unpackb(data)
       IN  IF decoded = <<>> THEN close("UnpackException")
           ELSE LET out == handle_request(table, decoded[1])
                IN  IF out.raised # "" THEN close(out.raised)
                    ELSE /\ response' = out.response
                         /\ spc' = "send"
                         /\ message_length' = 0
                         /\ data' = <<>>
                         /\ UNCHANGED caught
    /\ UNCHANGED <<running, sent, avail, rpos, peerClosed, s2c>>

\* the response is written ahead of the responses written before it
sendall_front(out, frame) == <<frame>> \o out

\* client_socket.sendall(frame)
sendall(out, frame) == Append(out, frame)

\* response_data = msgpack.packb(response); sendall(prefix + response_data)
send ==
    /\ spc = "send"
    /\ LET response_data == packb(response)
       IN  IF response_data = <<>>
           THEN /\ close("TypeError")
                /\ UNCHANGED s2c
           ELSE /\ s2c' = sendall(s2c, Frame(response_data[1]))
                /\ spc' = "loop"
                /\ response' = NoResponse
                /\ UNCHANGED <<message_length, data, caught>>
    /\ UNCHANGED <<running, sent, avail, rpos, peerClosed>>

NextConn ==
    \/ /\ \E frame \in PeerFrames : PeerSend(frame)
       /\ UNCHANGED notConnVars
    \/ /\ \E n \in 1..Len(Stream(sent)) : Deliver(n)
       /\ UNCHANGED notConnVars
    \/ /\ PeerClose
       /\ UNCHANGED notConnVars
    \/ /\ clear_running
       /\ UNCHANGED notConnVars
    \/ /\ loop_test
       /\ UNCHANGED notConnVars
    \/ /\ recv_length
       /\ UNCHANGED notConnVars
    \/ /\ recv_data
       /\ UNCHANGED notConnVars
    \/ /\ process
       /\ UNCHANGED notConnVars
    \/ /\ send
       /\ UNCHANGED notConnVars

(***************************************************************************)
(* _serve_loop and the worker pool                                         *)
(***************************************************************************)
\* connections that reach the listener
MaxConns == 5
\* max_workers of the ThreadPoolExecutor: _compute_worker_count() under
\* META_WORKERS=2
max_workers == 2

InitPool ==
    /\ accepted = 0
    /\ work_queue = <<>>
    /\ handling = {}
    /\ finished = {}

\* _serve_loop: accept(), then self._executor.submit(self._handle_client,
\* client_socket); submit appends to the executor's unbounded queue
submit ==
    /\ running
    /\ accepted < MaxConns
    /\ accepted' = accepted + 1
    /\ work_queue' = Append(work_queue, accepted + 1)
    /\ UNCHANGED <<handling, finished>>

\* a free worker thread takes the oldest queued call of _handle_client
worker_take ==
    /\ work_queue # <<>>
    /\ Cardinality(handling) < max_workers
    /\ handling' = handling \cup {Head(work_queue)}
    /\ work_queue' = Tail(work_queue)
    /\ UNCHANGED <<accepted, finished>>

\* _handle_client returns: the connection is closed, the worker is free
worker_done(c) ==
    /\ c \in handling
    /\ handling' = handling \ {c}
    /\ finished' = finished \cup {c}
    /\ UNCHANGED <<accepted, work_queue>>

NextPool ==
    \/ /\ submit
       /\ UNCHANGED notPoolVars
    \/ /\ worker_take
       /\ UNCHANGED notPoolVars
    \/ /\ \E c \in handling : worker_done(c)
       /\ UNCHANGED notPoolVars
    \/ /\ clear_running
       /\ UNCHANGED notConnVars

(***************************************************************************)
(* ServiceServer.start, stop and set_frozen                                *)
(***************************************************************************)
\* ServiceServer.start: self._running.set(); the listener and serve thread
start ==
    /\ ~running
    /\ running' = TRUE
    /\ UNCHANGED <<spc, sent, avail, rpos, peerClosed, message_length, data,
                   response, s2c, caught>>

\* ServiceServer.set_frozen(value)
set_frozen(value) ==
    /\ frozen # value
    /\ frozen' = value
    /\ UNCHANGED <<table, request, outcome, tick, reg_error>>

\* a ServiceServer from its construction on: registrations, start and stop,
\* the freeze bit, calls of handle_request
NextServer ==
    \/ NextDispatch
    \/ /\ start
       /\ UNCHANGED notConnVars
    \/ /\ clear_running
       /\ UNCHANGED notConnVars
    \/ /\ \E value \in BOOLEAN : set_frozen(value)
       /\ UNCHANGED notDispVars


(***************************************************************************)
(* _InstanceMethodFactory: the sharded LRU cache of service instances      *)
(***************************************************************************)
NUM_SHARDS == 16
max_size == 128

\* shard_size = max(1, max_size // NUM_SHARDS), with half as many shards
shard_size_halved ==
    IF max_size \div (2 * NUM_SHARDS) > 1 THEN max_size \div (2 * NUM_SHARDS)
                                           ELSE 1

\* shard_size = max(1, max_size // NUM_SHARDS)
shard_size ==
    IF max_size \div NUM_SHARDS > 1 THEN max_size \div NUM_SHARDS ELSE 1

\* how many invocations are made
MaxCalls == 10

\* the constructor arguments the invocations use: one integer, no keyword
\* arguments. The key of n is ((n,), ()).
CtorArgs == {0, 20, 21, 29, 45, 57, 73, 81, 102, 3}

\* hash(key) & (NUM_SHARDS - 1) for the key ((n,), ()): CPython's tuple hash
\* on a 64-bit build puts all of these but 3 in shard 0 and 3 in shard 1
shard_index(n) ==
    IF n = 3 THEN 1 ELSE 0

InitCache ==
    /\ cache_shards = [i \in 0 .. NUM_SHARDS - 1 |-> <<>>]
    /\ instances = 0
    /\ served = {}
    /\ calls = 0
    /\ last_used = <<>>

\* the position of key n in a shard's entries, 0 if it is not cached
cached(shard, n) ==
    IF \E i \in 1 .. Len(shard) : shard[i][1] = n
      THEN CHOOSE i \in 1 .. Len(shard) : shard[i][1] = n
      ELSE 0

\* the keys a shard holds
Keys(shard) == {shard[i][1] : i \in 1 .. Len(shard)}

\* the order of last access after key n was accessed and the shard became
\* `shard`
accessed(shard, n) ==
    LET kept(m) == /\ m # n
                   /\ \/ m \in Keys(shard)
                      \/ shard_index(m) # shard_index(n)
    IN  Append(SelectSeq(last_used, kept), n)

\* a cache that evicts the entry inserted first: a hit leaves the order as
\* it is
lru_cache_fifo(shard, n) ==
    LET i == cached(shard, n)
    IN  IF i # 0
          THEN shard
          ELSE LET added == Append(shard, <<n, instances + 1>>)
               IN  IF Len(added) > shard_size THEN Tail(added) ELSE added

\* a cache that evicts nothing
lru_cache_unbounded(shard, n) ==
    LET i == cached(shard, n)
    IN  IF i # 0
          THEN Append(SubSeq(shard, 1, i - 1) \o SubSeq(shard, i + 1, Len(shard)),
                      shard[i])
          ELSE Append(shard, <<n, instances + 1>>)

\* functools.lru_cache(maxsize=shard_size) after a call with key n: a hit
\* becomes the most recently used entry, a miss constructs an instance and
\* evicts the least recently used entry of a full shard
lru_cache(shard, n) ==
    LET i == cached(shard, n)
    IN  IF i # 0
          THEN Append(SubSeq(shard, 1, i - 1) \o SubSeq(shard, i + 1, Len(shard)),
                      shard[i])
          ELSE LET added == Append(shard, <<n, instances + 1>>)
               IN  IF Len(added) > shard_size THEN Tail(added) ELSE added

\* the keys invoked so far
Used == {p[1] : p \in served}

\* _InstanceMethodFactory.__call__(ctor_args = [n], ctor_kwargs = {}). The
\* keys of a shard are first used in ascending order: they differ in nothing
\* but their name.
__call__(n) ==
    LET shard == lru_cache(cache_shards[shard_index(n)], n)
    IN  /\ calls < MaxCalls
        /\ \A m \in CtorArgs \ Used :
               shard_index(m) = shard_index(n) => n \in Used \/ n <= m
        /\ calls' = calls + 1
        /\ cache_shards' = [cache_shards EXCEPT ![shard_index(n)] = shard]
        /\ instances' = IF cached(cache_shards[shard_index(n)], n) = 0
                          THEN instances + 1 ELSE instances
        /\ served' = served \cup {<<n, shard[Len(shard)][2]>>}
        /\ last_used' = accessed(shard, n)

NextCache ==
    \/ /\ \E n \in CtorArgs : __call__(n)
       /\ UNCHANGED notCacheVars

(***************************************************************************)
(* ServiceClient: the socket pool, a call, close()                         *)
(***************************************************************************)
Threads == {"t1", "t2"}

\* how many sockets the client creates
MaxSocks == 3

\* the max_pool_size the client is constructed with
max_pool_size == 1

\* the calls the threads make: an endpoint that returns, one that raises,
\* one that is not registered
ClientCalls == {Call(e, ListArg(1), "map") : e \in {"b", "a", "zz"}}

\* what a call came to: the exception raised ("" if none) with its message
\* and the remote type its text shows, the value returned, the response
\* received, the request the response answers, and the socket the
\* exception's traceback still refers to
Outcome(raised, message, type, result, got, of, tb) ==
    [raised |-> raised, message |-> message, type |-> type, result |-> result,
     got |-> got, of |-> of, tb |-> tb]
NoOutcome == Outcome("", "", "", NoValue, NoResponse, NotAMap, 0)

\* _send_request's handler: a RemoteExecutionError passes, any other
\* exception becomes RemoteExecutionError("Request failed: ...")
RequestFailed(message, tb) ==
    Outcome("RemoteExecutionError", message, "", NoValue, NoResponse, NotAMap, tb)

InitClient ==
    /\ _closed = FALSE
    /\ _socket_pool = <<>>
    /\ socks = <<>>
    /\ tpc = [t \in Threads |-> "idle"]
    /\ sock = [t \in Threads |-> 0]
    /\ tpayload = [t \in Threads |-> NotAMap]
    /\ tout = [t \in Threads |-> NoOutcome]
    /\ dropped = [t \in Threads |-> 0]
    /\ cpc = "open"

\* sock.close()
sock_close(s) == [socks EXCEPT ![s].state = "closed"]

\* the call of thread t ends with an exception: the socket it held, if any,
\* is the one its next call must not see again
raise(t, o, s) ==
    /\ tout' = [tout EXCEPT ![t] = o]
    /\ tpc' = [tpc EXCEPT ![t] = "idle"]
    /\ sock' = [sock EXCEPT ![t] = 0]
    /\ tpayload' = [tpayload EXCEPT ![t] = NotAMap]
    /\ dropped' = [dropped EXCEPT ![t] = s]

\* __getattr__.call_remote after _send_request returned the response without
\* the line that shows the remote type
call_remote_untyped(t) ==
    LET got == tout[t].got
    IN  IF got.status = "ok"
          THEN Outcome("", "", "", got.result, got, tout[t].of, 0)
          ELSE Outcome("RemoteExecutionError", "Remote call failed", "None",
                       NoValue, got, tout[t].of, 0)

\* __getattr__.call_remote after _send_request returned the response
call_remote(t) ==
    LET got == tout[t].got
    IN  IF got.status = "ok"
          THEN Outcome("", "", "", got.result, got, tout[t].of, 0)
          ELSE Outcome("RemoteExecutionError", "Remote call failed", got.etype,
                       NoValue, got, tout[t].of, 0)

\* the call of thread t ends after its socket was returned or closed
finish(t) ==
    /\ tout' = [tout EXCEPT ![t] = call_remote(t)]
    /\ tpc' = [tpc EXCEPT ![t] = "idle"]
    /\ sock' = [sock EXCEPT ![t] = 0]
    /\ tpayload' = [tpayload EXCEPT ![t] = NotAMap]
    /\ dropped' = [dropped EXCEPT ![t] = 0]

\* _managed_socket up to its test of self._closed, for a call with request r
_managed_socket(t, r) ==
    /\ tpc[t] = "idle"
    /\ IF _closed
         THEN raise(t, RequestFailed("Request failed: ServiceClient is closed.", 0), 0)
         ELSE /\ tpc' = [tpc EXCEPT ![t] = "get"]
              /\ tpayload' = [tpayload EXCEPT ![t] = r]
              /\ tout' = [tout EXCEPT ![t] = NoOutcome]
              /\ UNCHANGED <<sock, dropped>>
    /\ UNCHANGED <<_closed, _socket_pool, socks, cpc>>

\* _get_socket without the removal of the socket from the pool
_get_socket_shared(t) ==
    /\ tpc[t] = "get"
    /\ _socket_pool # <<>>
    /\ sock' = [sock EXCEPT ![t] = Head(_socket_pool)]
    /\ tpc' = [tpc EXCEPT ![t] = "send"]
    /\ UNCHANGED <<_closed, _socket_pool, socks, tpayload, tout, dropped, cpc>>

\* _get_socket, the pool not empty: get_nowait()
_get_socket(t) ==
    /\ tpc[t] = "get"
    /\ _socket_pool # <<>>
    /\ sock' = [sock EXCEPT ![t] = Head(_socket_pool)]
    /\ _socket_pool' = Tail(_socket_pool)
    /\ tpc' = [tpc EXCEPT ![t] = "send"]
    /\ UNCHANGED <<_closed, socks, tpayload, tout, dropped, cpc>>

\* _get_socket, the pool empty: a new socket, whose connect succeeds or
\* raises. Nothing closes the socket of a failed connect.
connect(t, ok) ==
    /\ tpc[t] = "get"
    /\ _socket_pool = <<>>
    /\ Len(socks) < MaxSocks
    /\ IF ok
         THEN /\ socks' = Append(socks, [state |-> "open", last |-> "none",
                                         wire |-> NotAMap])
              /\ sock' = [sock EXCEPT ![t] = Len(socks) + 1]
              /\ tpc' = [tpc EXCEPT ![t] = "send"]
              /\ UNCHANGED <<tout, dropped, tpayload>>
         ELSE /\ socks' = Append(socks, [state |-> "unconnected",
                                         last |-> "failed", wire |-> NotAMap])
              /\ raise(t, RequestFailed("Request failed: connect", Len(socks) + 1),
                       Len(socks) + 1)
    /\ UNCHANGED <<_closed, _socket_pool, cpc>>

\* the socket object of a failed connect is closed when it is deallocated,
\* once no exception's traceback refers to it
dealloc(s) ==
    /\ socks[s].state = "unconnected"
    /\ \A t \in Threads : tout[t].tb # s
    /\ socks' = sock_close(s)
    /\ UNCHANGED <<_closed, _socket_pool, tpc, sock, tpayload, tout, dropped, cpc>>

\* _managed_socket's handler with _return_socket in the place of sock.close()
fail_pooled(t, message) ==
    /\ socks' = [socks EXCEPT ![sock[t]].last = "failed",
                              ![sock[t]].wire = NotAMap]
    /\ _socket_pool' = Append(_socket_pool, sock[t])
    /\ raise(t, RequestFailed(message, 0), sock[t])
    /\ UNCHANGED <<_closed, cpc>>

\* _managed_socket's handler: sock.close(), raise
fail(t, message) ==
    /\ socks' = [socks EXCEPT ![sock[t]] = [state |-> "closed", last |-> "failed",
                                            wire |-> NotAMap]]
    /\ raise(t, RequestFailed(message, 0), sock[t])
    /\ UNCHANGED <<_closed, _socket_pool, cpc>>

\* sock.sendall(length header + data): the request is on the socket, or the
\* send raises
client_sendall(t, ok) ==
    /\ tpc[t] = "send"
    /\ IF ok
         THEN /\ socks' = [socks EXCEPT ![sock[t]].wire = tpayload[t]]
              /\ tpc' = [tpc EXCEPT ![t] = "recv"]
              /\ UNCHANGED <<_closed, _socket_pool, sock, tpayload, tout, dropped, cpc>>
         ELSE fail(t, "Request failed: send")

\* what the server sends for the request on a socket; it closes the
\* connection when handle_request raises or the result cannot be encoded
Served(s) ==
    LET o == handle_request(ServedTable, socks[s].wire)
    IN  IF o.raised # "" \/ o.response.result = ObjectValue
          THEN NoResponse ELSE o.response

\* sock.recv of the length and of the data, msgpack.unpackb: the response is
\* read in full and _send_request returns it, or one of them raises
client_recv(t, error) ==
    /\ tpc[t] = "recv"
    /\ IF error = "" /\ Served(sock[t]) # NoResponse
         THEN /\ tout' = [tout EXCEPT ![t].got = Served(sock[t]),
                                    ![t].of = socks[sock[t]].wire]
              /\ socks' = [socks EXCEPT ![sock[t]].last = "ok",
                                        ![sock[t]].wire = NotAMap]
              /\ tpc' = [tpc EXCEPT ![t] = "return"]
              /\ UNCHANGED <<_closed, _socket_pool, sock, tpayload, dropped, cpc>>
         ELSE fail(t, IF error = "" THEN "Connection closed by server" ELSE error)

\* _return_socket: the test of self._closed
_return_socket(t) ==
    /\ tpc[t] = "return"
    /\ IF _closed
         THEN /\ socks' = sock_close(sock[t])
              /\ finish(t)
         ELSE /\ tpc' = [tpc EXCEPT ![t] = "put"]
              /\ UNCHANGED <<socks, sock, tout, dropped, tpayload>>
    /\ UNCHANGED <<_closed, _socket_pool, cpc>>

\* _return_socket: put_nowait(sock), and sock.close() when the pool is full
put_nowait(t) ==
    /\ tpc[t] = "put"
    /\ IF Len(_socket_pool) < max_pool_size
         THEN /\ _socket_pool' = Append(_socket_pool, sock[t])
              /\ UNCHANGED socks
         ELSE /\ socks' = sock_close(sock[t])
              /\ UNCHANGED _socket_pool
    /\ finish(t)
    /\ UNCHANGED <<_closed, cpc>>

\* ServiceClient.close: self._closed = True
ServiceClient_close ==
    /\ cpc = "open"
    /\ ~_closed
    /\ _closed' = TRUE
    /\ cpc' = "drain"
    /\ UNCHANGED <<_socket_pool, socks, tpc, sock, tpayload, tout, dropped>>

\* ServiceClient.close: one turn of its loop over the pool, and its return
\* when the pool is empty
drain ==
    /\ cpc = "drain"
    /\ IF _socket_pool # <<>>
         THEN /\ socks' = sock_close(Head(_socket_pool))
              /\ _socket_pool' = Tail(_socket_pool)
              /\ UNCHANGED cpc
         ELSE /\ cpc' = "returned"
              /\ UNCHANGED <<socks, _socket_pool>>
    /\ UNCHANGED <<_closed, tpc, sock, tpayload, tout, dropped>>

NextClient ==
    \/ /\ \E t \in Threads, r \in ClientCalls : _managed_socket(t, r)
       /\ UNCHANGED notClientVars
    \/ /\ \E t \in Threads : _get_socket(t)
       /\ UNCHANGED notClientVars
    \/ /\ \E t \in Threads, ok \in BOOLEAN : connect(t, ok)
       /\ UNCHANGED notClientVars
    \/ /\ \E s \in 1 .. Len(socks) : dealloc(s)
       /\ UNCHANGED notClientVars
    \/ /\ \E t \in Threads, ok \in BOOLEAN : client_sendall(t, ok)
       /\ UNCHANGED notClientVars
    \/ /\ \E t \in Threads,
            error \in {"", "Request failed: timed tout",
                       "Connection closed while reading response",
                       "Request failed: unpack"} : client_recv(t, error)
       /\ UNCHANGED notClientVars
    \/ /\ \E t \in Threads : _return_socket(t)
       /\ UNCHANGED notClientVars
    \/ /\ \E t \in Threads : put_nowait(t)
       /\ UNCHANGED notClientVars
    \/ /\ ServiceClient_close
       /\ UNCHANGED notClientVars
    \/ /\ drain
       /\ UNCHANGED notClientVars

(***************************************************************************)
(* DaemonServiceBuilder.run, DaemonHandle.stop, the daemon child           *)
(***************************************************************************)
\* how many times run is called
MaxRuns == 3

\* the parent's pid in the registry entry; a child's is its handle's number
ParentPid == 0

\* the host argument of create_service: none, an empty text, all interfaces,
\* the loopback address
HostArgs == {None, "", "0.0.0.0", DEFAULT_HOST}

\* ServiceServer.__init__: self._host = host or DEFAULT_HOST
ServiceServer_host(arg) == IF arg = None \/ arg = "" THEN DEFAULT_HOST ELSE arg

\* the pid of a process of another program that publishes the same name
OtherPid == MaxRuns + 1

\* _is_process_alive for the owner of the entry, probed by the parent or by
\* a child: the parent and the other program live, a child until it ends
owner_alive ==
    /\ owner # NoPid
    /\ owner[1] \in 1 .. Len(daemons) => daemons[owner[1]] # "dead"

InitDaemon ==
    /\ rpc = "idle"
    /\ daemons = <<>>
    /\ stopped = {}
    /\ owner = <<ParentPid>>
    /\ _ACTIVE_DAEMONS = {}
    /\ _handle = 0

\* DaemonHandle.is_running
is_running(h) == daemons[h] # "dead" /\ h \notin stopped

\* run up to its wait for the child: set_frozen(True), ServiceServer.stop
\* with its unregister_service, _spawn_daemon_process, the DaemonHandle
run ==
    /\ rpc \in {"idle", "returned", "raised"}
    /\ Len(daemons) < MaxRuns
    /\ ~(_handle # 0 /\ is_running(_handle))
    /\ table # <<>>
    /\ frozen' = TRUE
    /\ running' = FALSE
    /\ owner' = IF running /\ owner = <<ParentPid>> THEN NoPid ELSE owner
    /\ daemons' = Append(daemons, "starting")
    /\ rpc' = "await"
    /\ UNCHANGED <<stopped, _ACTIVE_DAEMONS, _handle>>
    /\ UNCHANGED <<table, request, outcome, tick, reg_error>>
    /\ UNCHANGED <<spc, sent, avail, rpos, peerClosed, message_length, data,
                   response, s2c, caught>>

\* _daemon_worker up to the publish of run_forever: ServiceServer(name,
\* logger=...), with no host; register_service under the child's pid with
\* the host of that server; an entry of a live owner makes it raise and the
\* child end
_daemon_worker(h) ==
    /\ daemons[h] = "starting"
    /\ IF owner_alive
         THEN /\ daemons' = [daemons EXCEPT ![h] = "dead"]
              /\ UNCHANGED owner
              /\ UNCHANGED published
         ELSE /\ daemons' = [daemons EXCEPT ![h] = "serving"]
              /\ owner' = <<h>>
              /\ published' = published \cup {<<h, ServiceServer_host(None)>>}
    /\ UNCHANGED <<rpc, stopped, _ACTIVE_DAEMONS, _handle>>

\* a child ends by itself
child_exit(h) ==
    /\ daemons[h] # "dead"
    /\ daemons' = [daemons EXCEPT ![h] = "dead"]
    /\ UNCHANGED <<rpc, stopped, owner, _ACTIVE_DAEMONS, _handle>>

\* _await_service_start: a resolve_service that finds the entry of a live
\* process ends the wait and run returns the handle; one that finds a stale
\* entry evicts it; the deadline may pass at any moment of the wait
_await_service_start(deadline) ==
    /\ rpc = "await"
    /\ IF deadline
         THEN /\ rpc' = "timeout"
              /\ UNCHANGED <<owner, _ACTIVE_DAEMONS, _handle>>
         ELSE IF owner_alive
         THEN /\ rpc' = "returned"
              /\ _handle' = Len(daemons)
              /\ _ACTIVE_DAEMONS' = _ACTIVE_DAEMONS \cup {Len(daemons)}
              /\ UNCHANGED owner
         ELSE /\ owner' = NoPid
              /\ UNCHANGED <<rpc, _ACTIVE_DAEMONS, _handle>>
    /\ UNCHANGED <<daemons, stopped>>

\* run's _cleanup closure without its set_frozen(False)
_cleanup_frozen(h) ==
    /\ _handle' = IF _handle = h THEN 0 ELSE _handle
    /\ _ACTIVE_DAEMONS' = _ACTIVE_DAEMONS \ {h}
    /\ UNCHANGED frozen

\* run's _cleanup closure
_cleanup(h) ==
    /\ _handle' = IF _handle = h THEN 0 ELSE _handle
    /\ _ACTIVE_DAEMONS' = _ACTIVE_DAEMONS \ {h}
    /\ frozen' = FALSE

\* DaemonHandle.stop: terminate and join the child, unregister_service with
\* expected_pid, _stopped, the cleanup
DaemonHandle_stop_all(h) ==
    /\ h \notin stopped
    /\ daemons' = [daemons EXCEPT ![h] = "dead"]
    /\ owner' = IF owner = <<h>> THEN NoPid ELSE owner
    /\ stopped' = stopped \cup {h}
    /\ _cleanup(h)
    /\ UNCHANGED <<table, request, outcome, tick, reg_error>>

\* run's handler of a failed wait: handle.stop(timeout=0.5), raise
run_except ==
    /\ rpc = "timeout"
    /\ DaemonHandle_stop_all(Len(daemons))
    /\ rpc' = "raised"

\* the caller stops a handle that run returned
handle_stop(h) ==
    /\ rpc \in {"idle", "returned", "raised"}
    /\ DaemonHandle_stop_all(h)
    /\ UNCHANGED rpc

\* the least of a set of handles: the one registered first
First(hs) == CHOOSE h \in hs : \A g \in hs : h <= g

\* an at-exit hook that stops the first handle of the list only
_shutdown_daemons_first ==
    /\ rpc \in {"idle", "returned", "raised", "atexit"}
    /\ IF _ACTIVE_DAEMONS = {}
         THEN /\ rpc' = "exited"
              /\ UNCHANGED <<daemons, stopped, owner, _ACTIVE_DAEMONS, _handle>>
              /\ UNCHANGED dispVars
         ELSE /\ DaemonHandle_stop_all(First(_ACTIVE_DAEMONS))
              /\ rpc' = "exited"

\* the process exits: the at-exit hook _shutdown_daemons stops the handles
\* of list(_ACTIVE_DAEMONS) one after the other, then the process is gone
_shutdown_daemons ==
    /\ rpc \in {"idle", "returned", "raised", "atexit"}
    /\ IF _ACTIVE_DAEMONS = {}
         THEN /\ rpc' = "exited"
              /\ UNCHANGED <<daemons, stopped, owner, _ACTIVE_DAEMONS, _handle>>
              /\ UNCHANGED dispVars
         ELSE /\ DaemonHandle_stop_all(First(_ACTIVE_DAEMONS))
              /\ rpc' = "atexit"

\* register_service and unregister_service in a process of another
\* program, for the same name: the entry of a live owner is not replaced
other_publish(up) ==
    /\ IF up THEN ~owner_alive /\ owner' = <<OtherPid>>
             ELSE owner = <<OtherPid>> /\ owner' = NoPid
    /\ UNCHANGED <<rpc, daemons, stopped, _ACTIVE_DAEMONS, _handle>>

NextDaemon ==
    \/ /\ \E up \in BOOLEAN : other_publish(up)
       /\ UNCHANGED <<regVars, dispVars, connVars, poolVars, cacheVars, clientVars, moreVars>>
    \/ /\ _shutdown_daemons
       /\ UNCHANGED <<regVars, connVars, poolVars, cacheVars, clientVars, moreVars>>
    \/ /\ run
       /\ UNCHANGED <<regVars, poolVars, cacheVars, clientVars, moreVars>>
    \/ /\ \E h \in 1 .. Len(daemons) : _daemon_worker(h)
       /\ UNCHANGED <<regVars, dispVars, connVars, poolVars, cacheVars, clientVars,
                      notPublished>>
    \/ /\ \E h \in 1 .. Len(daemons) : child_exit(h)
       /\ UNCHANGED <<regVars, dispVars, connVars, poolVars, cacheVars, clientVars, moreVars>>
    \/ /\ \E deadline \in BOOLEAN : _await_service_start(deadline)
       /\ UNCHANGED <<regVars, dispVars, connVars, poolVars, cacheVars, clientVars, moreVars>>
    \/ /\ run_except
       /\ UNCHANGED <<regVars, connVars, poolVars, cacheVars, clientVars, moreVars>>
    \/ /\ \E h \in _ACTIVE_DAEMONS : handle_stop(h)
       /\ UNCHANGED <<regVars, connVars, poolVars, cacheVars, clientVars, moreVars>>
    \/ /\ \E name \in EndpointNames : register(name)
       /\ UNCHANGED <<regVars, connVars, poolVars, cacheVars, clientVars, daemonVars,
                    moreVars>>

(***************************************************************************)
(* The endpoints of a service class: one factory per registered name       *)
(***************************************************************************)
\* the names _register_class registers for a class T with a method `get`
\* declared under the alias `fetch` and a method `put`: for each method its
\* endpoint name and its attribute name
ClassEndpoints == {"fetch", "get", "put"}

\* register, for each name: self._resolve_factory(func, name) makes a new
\* _InstanceMethodFactory(owner, attr_name), with shards of its own
InitFactories ==
    /\ factories = [e \in ClassEndpoints |-> [i \in 0 .. NUM_SHARDS - 1 |-> <<>>]]
    /\ answered = {}

\* one factory for all the names of the class
invoke_instance_shared(e, n) ==
    LET shard == lru_cache(factories["get"][shard_index(n)], n)
    IN  /\ calls < MaxCalls
        /\ calls' = calls + 1
        /\ factories' = [factories EXCEPT !["get"][shard_index(n)] = shard]
        /\ instances' = IF cached(factories["get"][shard_index(n)], n) = 0
                          THEN instances + 1 ELSE instances
        /\ answered' = answered \cup {<<e, n, shard[Len(shard)][2]>>}
        /\ UNCHANGED <<cache_shards, served, last_used, notFactories>>

\* RegisteredFunction.invoke of an instance-bound endpoint: the factory of
\* the endpoint name gets or creates the instance for the key ((n,), ())
invoke_instance(e, n) ==
    LET shard == lru_cache(factories[e][shard_index(n)], n)
    IN  /\ calls < MaxCalls
        /\ calls' = calls + 1
        /\ factories' = [factories EXCEPT ![e][shard_index(n)] = shard]
        /\ instances' = IF cached(factories[e][shard_index(n)], n) = 0
                          THEN instances + 1 ELSE instances
        /\ answered' = answered \cup {<<e, n, shard[Len(shard)][2]>>}
        /\ UNCHANGED <<cache_shards, served, last_used, notFactories>>

NextFactories ==
    \/ /\ \E e \in ClassEndpoints, n \in {0, 3} : invoke_instance(e, n)
       /\ UNCHANGED <<regVars, dispVars, connVars, poolVars, clientVars, daemonVars>>

(***************************************************************************)
(* Concurrent calls of one factory: the workers of the pool                *)
(***************************************************************************)
PoolWorkers == {"w1", "w2"}

\* the ctor_args of a call: a list of one integer n, or a list that holds a
\* list ([[n]]), of which tuple() makes a key that cannot be hashed
CtorLists ==
    [hashable : {TRUE}, n : CtorArgs] \cup {[hashable |-> FALSE, n |-> 1]}

\* the response to a call with these ctor_args, and the instance that served it
Reply(a, resp, instance) == [ctor_args |-> a, response |-> resp, instance |-> instance]

NoCall == [pc |-> "idle", key |-> 0]
InitRace ==
    /\ wk = [w \in PoolWorkers |-> NoCall]
    /\ reply = Reply([hashable |-> TRUE, n |-> 0], NoResponse, 0)

\* a cache that stores the result of every call that missed: the entry of a
\* key that was inserted meanwhile is replaced
lru_cache_miss_overwrite(shard, n, result) ==
    LET i == cached(shard, n)
        added == Append(shard, <<n, result>>)
    IN  IF result = 0 THEN shard
        ELSE IF i # 0
          THEN Append(SubSeq(shard, 1, i - 1) \o SubSeq(shard, i + 1, Len(shard)),
                      <<n, result>>)
        ELSE IF Len(added) > shard_size THEN Tail(added) ELSE added

\* a cache that makes room before it calls the function
lru_cache_miss_evict_first(shard, n, result) ==
    LET i == cached(shard, n)
        added == Append(shard, <<n, result>>)
    IN  IF result = 0
          THEN IF Len(shard) >= shard_size THEN Tail(shard) ELSE shard
        ELSE IF i # 0 THEN shard
        ELSE IF Len(added) > shard_size THEN Tail(added) ELSE added

\* functools.lru_cache(maxsize=shard_size) when the function it called for a
\* key that missed has ended: nothing is stored if it raised (result 0) or
\* if the key was inserted while it ran; otherwise the result is inserted
\* and, in a full cache, the least recently used entry evicted
lru_cache_miss(shard, n, result) ==
    LET i == cached(shard, n)
        added == Append(shard, <<n, result>>)
    IN  IF result = 0 THEN shard
        ELSE IF i # 0 THEN shard
        ELSE IF Len(added) > shard_size THEN Tail(added) ELSE added

\* handle_request for a call of an instance-bound endpoint by worker w, up
\* to the constructor: hash(key) raises TypeError for a key that holds a
\* list; a hit returns the cached instance; a miss runs the constructor
factory_call(w, a) ==
    LET n == a.n
        shard == cache_shards[shard_index(n)]
    IN  /\ wk[w].pc = "idle"
        /\ calls < MaxCalls
        /\ \A m \in CtorArgs \ (Used \cup {wk[v].key : v \in PoolWorkers}) :
               shard_index(m) = shard_index(n) => n \in Used \/ n <= m
        /\ calls' = calls + 1
        /\ IF ~a.hashable
             THEN /\ reply' = Reply(a, Error("TypeError"), 0)
                  /\ UNCHANGED <<wk, cache_shards, served, last_used>>
           ELSE IF cached(shard, n) # 0
             THEN /\ cache_shards' = [cache_shards EXCEPT
                                         ![shard_index(n)] = lru_cache(shard, n)]
                  /\ last_used' = accessed(shard, n)
                  /\ served' = served \cup {<<n, shard[cached(shard, n)][2]>>}
                  /\ reply' = Reply(a, OkResult(ObjectValue),
                                    shard[cached(shard, n)][2])
                  /\ UNCHANGED wk
             ELSE /\ wk' = [wk EXCEPT ![w] = [pc |-> "ctor", key |-> n]]
                  /\ UNCHANGED <<reply, cache_shards, served, last_used>>
        /\ UNCHANGED <<instances, notRace>>

\* _create_instance_from_key ends in worker w: self._cls(...) raised
\* (exc # "") or returned a new instance, which the target is then called on
_create_instance_from_key(w, exc) ==
    LET n == wk[w].key
        shard == cache_shards[shard_index(n)]
        result == IF exc # "" THEN 0 ELSE instances + 1
        stored == lru_cache_miss(shard, n, result)
    IN  /\ wk[w].pc = "ctor"
        /\ wk' = [wk EXCEPT ![w] = NoCall]
        /\ cache_shards' = [cache_shards EXCEPT ![shard_index(n)] = stored]
        /\ instances' = IF exc # "" THEN instances ELSE instances + 1
        /\ last_used' = IF stored = shard THEN last_used ELSE accessed(stored, n)
        /\ served' = IF exc # "" THEN served ELSE served \cup {<<n, result>>}
        /\ reply' = IF exc # ""
                      THEN Reply([hashable |-> TRUE, n |-> n], Error(exc), 0)
                      ELSE Reply([hashable |-> TRUE, n |-> n],
                                 OkResult(ObjectValue), result)
        /\ UNCHANGED <<calls, notRace>>

NextRace ==
    \/ /\ \E w \in PoolWorkers, a \in CtorLists : factory_call(w, a)
       /\ UNCHANGED <<regVars, dispVars, connVars, poolVars, clientVars, daemonVars>>
    \/ /\ \E w \in PoolWorkers, exc \in {"", "ValueError"} :
              _create_instance_from_key(w, exc)
       /\ UNCHANGED <<regVars, dispVars, connVars, poolVars, clientVars, daemonVars>>

(***************************************************************************)
(* The cache key: tuple(ctor_args), tuple(sorted(ctor_kwargs.items()))     *)
(***************************************************************************)
\* the values of constructor arguments: the integer 1 and the float 1.0
CtorValues == {[kind |-> "int", v |-> 1], [kind |-> "float", v |-> 1]}

\* ctor_args: a list of at most one value
CtorArgLists == {<<>>} \cup {<<x>> : x \in CtorValues}

\* ctor_kwargs: the (name, value) pairs of a map in the order of the request
CtorKwargs ==
    {<<>>}
    \cup {<<<<k, x>>>> : k \in {"a", "b"}, x \in CtorValues}
    \cup {<<<<p[1], x>>, <<p[2], y>>>> : p \in {<<"a", "b">>, <<"b", "a">>},
                                        x \in CtorValues, y \in CtorValues}

\* sorted(ctor_kwargs.items()): the names of a dict differ, so that the
\* pairs are ordered by name
RECURSIVE insort_item(_, _)
insort_item(sortedSeq, item) ==
    IF sortedSeq = <<>> THEN <<item>>
    ELSE IF str_lt(item[1], Head(sortedSeq)[1]) THEN <<item>> \o sortedSeq
         ELSE <<Head(sortedSeq)>> \o insort_item(Tail(sortedSeq), item)

RECURSIVE sorted_items(_)
sorted_items(items) ==
    IF items = <<>> THEN <<>>
    ELSE insort_item(sorted_items(SubSeq(items, 1, Len(items) - 1)),
                     items[Len(items)])

\* key = (ctor_args_tuple, kwargs_tuple)
key(ctor_args, ctor_kwargs) == <<ctor_args, sorted_items(ctor_kwargs)>>

\* == of two values: numbers are compared by value, whatever their type
py_eq(x, y) == x.v = y.v

\* == of two keys, by which lru_cache finds an entry
key_eq(k1, k2) ==
    /\ Len(k1[1]) = Len(k2[1])
    /\ \A i \in 1 .. Len(k1[1]) : py_eq(k1[1][i], k2[1][i])
    /\ Len(k1[2]) = Len(k2[2])
    /\ \A i \in 1 .. Len(k1[2]) :
           k1[2][i][1] = k2[2][i][1] /\ py_eq(k1[2][i][2], k2[2][i][2])

KeyedCalls == {"first", "second"}
NotKeyed == [done |-> FALSE, ctor_args |-> <<>>, ctor_kwargs |-> <<>>,
             key |-> <<>>, shard |-> 0, instance |-> 0]
InitKeyed ==
    keyed = [c \in KeyedCalls |-> NotKeyed]

\* __call__ for two calls, one after the other, on an empty cache: keys that
\* are equal have the same hash and so the same shard, where the second
\* call finds the instance of the first; the hash of any other key (it
\* depends on the hash seed of the process where a name is part of the key)
\* can select any shard
keyed_call(ctor_args, ctor_kwargs) ==
    LET c == IF keyed["first"].done THEN "second" ELSE "first"
        k == key(ctor_args, ctor_kwargs)
        hit == keyed["first"].done /\ key_eq(keyed["first"].key, k)
    IN  /\ ~keyed["second"].done
        /\ \E i \in 0 .. NUM_SHARDS - 1 :
              /\ hit => i = keyed["first"].shard
              /\ keyed' = [keyed EXCEPT ![c] =
                    [done |-> TRUE, ctor_args |-> ctor_args,
                     ctor_kwargs |-> ctor_kwargs, key |-> k, shard |-> i,
                     instance |-> IF hit THEN keyed["first"].instance
                                  ELSE IF c = "first" THEN 1 ELSE 2]]
        /\ UNCHANGED notKeyed

NextKeyed ==
    \/ /\ \E ctor_args \in CtorArgLists, ctor_kwargs \in CtorKwargs :
              keyed_call(ctor_args, ctor_kwargs)
       /\ UNCHANGED <<regVars, dispVars, connVars, poolVars, cacheVars, clientVars,
                      daemonVars>>

(***************************************************************************)
(* ServiceServer.stop                                                      *)
(***************************************************************************)
InitMore ==
    /\ stop_pc = "none"
    /\ workers_env = [set |-> FALSE, text |-> <<>>]
    /\ cpu = 1
    /\ workers = -1
    /\ InitFactories
    /\ InitRace
    /\ InitKeyed
    /\ host_arg = None
    /\ published = {}

\* stop up to its wait for the workers: self._running.clear(), the listener
\* closed, the serve thread joined for at most `timeout` seconds
stop ==
    /\ stop_pc = "none"
    /\ clear_running
    /\ stop_pc' = "shutdown"
    /\ UNCHANGED <<owner, notStop>>

\* stop from self._executor.shutdown(wait=True, cancel_futures=False), which
\* returns when the worker has left _handle_client, to unregister_service
\* with the pid of the published record
stop_shutdown ==
    /\ stop_pc = "shutdown"
    /\ spc = "closed"
    /\ owner' = IF owner = <<ParentPid>> THEN NoPid ELSE owner
    /\ stop_pc' = "returned"
    /\ UNCHANGED <<connVars, notStop>>

\* the steps the server takes on its own: the worker and stop
ServerStep ==
    \/ stop
    \/ stop_shutdown
    \/ loop_test /\ UNCHANGED <<owner, moreVars>>
    \/ recv_length /\ UNCHANGED <<owner, moreVars>>
    \/ recv_data /\ UNCHANGED <<owner, moreVars>>
    \/ process /\ UNCHANGED <<owner, moreVars>>
    \/ send /\ UNCHANGED <<owner, moreVars>>

\* a running server with one client connection, the client, and stop
NextStop ==
    \/ /\ \E frame \in PeerFrames : PeerSend(frame)
       /\ UNCHANGED notConnVars
    \/ /\ \E n \in 1..Len(Stream(sent)) : Deliver(n)
       /\ UNCHANGED notConnVars
    \/ /\ PeerClose
       /\ UNCHANGED notConnVars
    \/ /\ ServerStep
       /\ UNCHANGED <<regVars, dispVars, poolVars, cacheVars, clientVars,
                      rpc, daemons, stopped, _ACTIVE_DAEMONS, _handle>>

(***************************************************************************)
(* _compute_worker_count                                                   *)
(***************************************************************************)
\* the longest text of META_WORKERS
MaxEnvLen == 3

\* the characters of the texts
EnvChars == {"0", "1", "4", "-", "+", " ", "_", "x"}

\* the texts of length n
RECURSIVE Texts(_)
Texts(n) ==
    IF n = 0 THEN {<<>>}
    ELSE {Append(t, c) : t \in Texts(n - 1), c \in EnvChars}

\* the values os.cpu_count() gives; 0 is None
CpuCounts == {0, 1, 2, 3, 15, 16, 17, 64}

DigitValue(c) ==
    CASE c = "0" -> 0 [] c = "1" -> 1 [] c = "4" -> 4 [] OTHER -> -1

\* str.strip() as int() applies it
RECURSIVE strip(_)
strip(t) ==
    IF t = <<>> THEN t
    ELSE IF Head(t) = " " THEN strip(Tail(t))
    ELSE IF t[Len(t)] = " " THEN strip(SubSeq(t, 1, Len(t) - 1))
    ELSE t

\* the value of a run of digits with single underscores between them, -1 if
\* the text is not one
RECURSIVE digits(_, _)
digits(t, acc) ==
    IF t = <<>> THEN acc
    ELSE IF DigitValue(Head(t)) >= 0 THEN digits(Tail(t), 10 * acc + DigitValue(Head(t)))
    ELSE IF Head(t) = "_" /\ Len(t) > 1 /\ DigitValue(t[2]) >= 0 THEN digits(Tail(t), acc)
    ELSE -1

\* int(text): <<value>>, or <<>> when it raises ValueError
int(t) ==
    LET s == strip(t)
        signed == s # <<>> /\ Head(s) \in {"+", "-"}
        body == IF signed THEN Tail(s) ELSE s
        v == IF body = <<>> \/ DigitValue(Head(body)) < 0 THEN -1 ELSE digits(body, 0)
    IN  IF v < 0 THEN <<>>
        ELSE IF signed /\ Head(s) = "-" THEN <<0 - v>> ELSE <<v>>

\* min(32, max(4, cpu * 2)) with cpu = os.cpu_count() or 1
default_workers(n) ==
    LET c == IF n = 0 THEN 1 ELSE n
        m == IF c * 2 > 4 THEN c * 2 ELSE 4
    IN  IF m < 32 THEN m ELSE 32

\* _compute_worker_count with `workers < 0` for `workers <= 0`
_compute_worker_count_zero(env, n) ==
    LET parsed == IF env.set /\ env.text # <<>> THEN int(env.text) ELSE <<0>>
        w == IF parsed = <<>> THEN 0 ELSE parsed[1]
    IN  IF w < 0 THEN default_workers(n) ELSE w

_compute_worker_count(env, n) ==
    LET parsed == IF env.set /\ env.text # <<>> THEN int(env.text) ELSE <<0>>
        w == IF parsed = <<>> THEN 0 ELSE parsed[1]
    IN  IF w <= 0 THEN default_workers(n) ELSE w

\* ServiceServer.__init__ sizes its pool
size_pool ==
    /\ workers = -1
    /\ workers' = _compute_worker_count(workers_env, cpu)
    /\ UNCHANGED <<workers_env, cpu, notWorkers>>

NextWorkers ==
    \/ /\ size_pool
       /\ UNCHANGED <<regVars, dispVars, connVars, poolVars, cacheVars, clientVars,
                      daemonVars>>

(***************************************************************************)
(* Specifications                                                          *)
(***************************************************************************)
Init ==
    /\ InitRegistry
    /\ InitDispatch
    /\ InitConn
    /\ InitPool
    /\ InitCache
    /\ InitClient
    /\ InitDaemon
    /\ InitMore

\* a process with any META_WORKERS and any number of cores
InitWorkers ==
    /\ InitRegistry
    /\ InitDispatch
    /\ InitConn
    /\ InitPool
    /\ InitCache
    /\ InitClient
    /\ InitDaemon
    /\ stop_pc = "none"
    /\ workers_env \in {[set |-> FALSE, text |-> <<>>]}
            \cup {[set |-> TRUE, text |-> t] :
                    t \in UNION {Texts(n) : n \in 0 .. MaxEnvLen}}
    /\ cpu \in CpuCounts
    /\ workers = -1
    /\ InitFactories
    /\ InitRace
    /\ InitKeyed
    /\ host_arg = None
    /\ published = {}

\* a ServiceServer that was constructed and not started
InitConstructed ==
    /\ InitRegistry
    /\ InitDispatch
    /\ running = FALSE
    /\ spc = "closed"
    /\ sent = <<>>
    /\ avail = 0
    /\ rpos = 0
    /\ peerClosed = FALSE
    /\ message_length = 0
    /\ data = <<>>
    /\ response = NoResponse
    /\ s2c = <<>>
    /\ caught = ""
    /\ InitPool
    /\ InitCache
    /\ InitClient
    /\ InitDaemon
    /\ InitMore

\* a server that registered its endpoints, started and accepted a connection
InitServed ==
    /\ InitRegistry
    /\ table = ServedTable
    /\ request = NotAMap
    /\ outcome = Returns(NoResponse, {})
    /\ tick = FALSE
    /\ frozen = FALSE
    /\ reg_error = ""
    /\ InitConn
    /\ InitPool
    /\ InitCache
    /\ InitClient
    /\ InitDaemon
    /\ InitMore

\* a factory that has served seven calls with seven keys of shard 0, one
\* after the other
FilledKeys == <<0, 20, 21, 29, 45, 57, 73>>
InitFilled ==
    /\ InitRegistry
    /\ InitDispatch
    /\ InitConn
    /\ InitPool
    /\ cache_shards = [i \in 0 .. NUM_SHARDS - 1 |->
                          IF i = 0 THEN [k \in 1 .. Len(FilledKeys) |-> <<FilledKeys[k], k>>]
                                   ELSE <<>>]
    /\ instances = Len(FilledKeys)
    /\ served = {<<FilledKeys[k], k>> : k \in 1 .. Len(FilledKeys)}
    /\ calls = Len(FilledKeys)
    /\ last_used = FilledKeys
    /\ InitClient
    /\ InitDaemon
    /\ InitMore

\* a server created with any host argument, which registered its endpoints,
\* started and accepted a connection
InitHosted ==
    /\ InitRegistry
    /\ table = ServedTable
    /\ request = NotAMap
    /\ outcome = Returns(NoResponse, {})
    /\ tick = FALSE
    /\ frozen = FALSE
    /\ reg_error = ""
    /\ InitConn
    /\ InitPool
    /\ InitCache
    /\ InitClient
    /\ InitDaemon
    /\ stop_pc = "none"
    /\ workers_env = [set |-> FALSE, text |-> <<>>]
    /\ cpu = 1
    /\ workers = -1
    /\ InitFactories
    /\ InitRace
    /\ InitKeyed
    /\ host_arg \in HostArgs
    /\ published = {}

Spec == Init /\ [][NextRegistry]_vars

SpecDispatch == InitConstructed /\ [][NextServer]_vars

SpecConn == InitServed /\ [][NextConn]_vars

SpecPool == InitServed /\ [][NextPool]_vars
SpecCache == Init /\ [][NextCache]_vars
SpecClient == InitServed /\ [][NextClient]_vars
SpecDaemon == InitServed /\ [][NextDaemon]_vars
SpecWorkers == InitWorkers /\ [][NextWorkers]_vars
SpecFactories == Init /\ [][NextFactories]_vars
SpecRace == InitFilled /\ [][NextRace]_vars
SpecKeyed == Init /\ [][NextKeyed]_vars
SpecHost == InitHosted /\ [][NextDaemon]_vars
\* the server's own steps are taken when they can be; the client is free to
\* send, to close or to stay idle
SpecStop ==
    InitServed /\ [][NextStop]_vars
    /\ WF_vars(ServerStep /\ UNCHANGED <<regVars, dispVars, poolVars, cacheVars, clientVars,
                                         rpc, daemons, stopped, _ACTIVE_DAEMONS, _handle>>)

(***************************************************************************)
(* Properties of a connection                                              *)
(***************************************************************************)
\* the offsets of the i-th frame the peer wrote in the byte stream
FrameStart(i) == Len(Stream(SubSeq(sent, 1, i - 1)))
FrameEnd(i) == Len(Stream(SubSeq(sent, 1, i)))
\* the first i frames are requests
AllRequests(i) == \A j \in 1..i : sent[j] # Oversized
\* the request a frame carries
RequestOf(frame) == CHOOSE req \in PeerRequests : Frame(packb_request(req)) = frame
\* requests that fail: not a map, args of the wrong shape, a target that
\* raises, a result that cannot be encoded
Fails(req) ==
    \/ ~req.ismap
    \/ req.type = "call" /\ req.args.shape # "list"
    \/ req.type = "call" /\ req.endpoint \in {"a", "ab"}
\* the status byte of a response frame is that of "error"
IsErrorFrame(frame) == frame[6] = 2

\* C8: every request the server has read and is done with was answered on
\* the connection, and a request that fails (a payload that is not a map,
\* args of the wrong shape, a target that raises, a result that cannot be
\* encoded) was answered with a status error response.
C8_FailuresAnswered ==
    /\ \A i \in 1..Len(sent) :
          (AllRequests(i) /\ FrameEnd(i) <= rpos) =>
              \/ i <= Len(s2c)
              \/ spc \in {"data", "send"} /\ i = Len(s2c) + 1
    /\ \A i \in 1..Len(s2c) :
          (i <= Len(sent) /\ AllRequests(i) /\ Fails(RequestOf(sent[i]))) =>
              IsErrorFrame(s2c[i])

\* the answer a request is due from the served table
Answer(req) ==
    CASE req = Command("list_endpoints") -> OkNames(<<"a", "ab", "b">>)
      [] req = Call("b", ListArg(1), "map") -> OkResult(IntValue(1))
      [] req = Call("a", ListArg(1), "map") -> Error("ValueError")
      [] OTHER -> Error("")

\* C9: on one connection the i-th response frame answers the i-th request
\* frame, and the server reads nothing of request i+1 before it has written
\* response i.
C9_FifoPerConnection ==
    /\ Len(s2c) <= Len(sent)
    /\ \A i \in 1..Len(s2c) :
          /\ AllRequests(i)
          /\ s2c[i] = Frame(packb(Answer(RequestOf(sent[i])))[1])
    /\ \A i \in 1..(Len(sent) - 1) :
          (AllRequests(i) /\ FrameStart(i + 1) < rpos) => Len(s2c) >= i

\* two requests with different answers were written before the server read
\* any, and both were answered
C9_Witness ==
    /\ Len(sent) >= 2
    /\ Len(s2c) >= 2
    /\ s2c[1] # s2c[2]

\* C10: a receiver that reads a length prefix above the maximum message size
\* closes the connection and reads or buffers none of the payload.
C10_OversizedRejected ==
    message_length > MaxMessageBytes => data = <<>>

(***************************************************************************)
(* Properties of the worker pool                                           *)
(***************************************************************************)
\* C11: when all max_workers workers are occupied by open connections, a
\* newly accepted connection is closed at once and not queued: no accepted
\* connection waits for a worker.
C11_SaturatedPoolDrops ==
    Cardinality(handling) = max_workers => work_queue = <<>>

UniqueInstancePerKey ==
    \A p, q \in served : (p[1] = q[1]) <=> (p[2] = q[2])

\* C13: with total capacity 128 and at most 128 distinct keys invoked, the
\* invocations with the same key are served by the same instance and those
\* with distinct keys by distinct instances.
C13_UniqueInstancePerKey ==
    Cardinality(Used) <= max_size => UniqueInstancePerKey

\* C13 (amended): the same, for invocations in which no shard receives more
\* than max(1, 128 // 16) = 8 distinct keys.
C13_UniqueInstancePerShardKey ==
    (\A i \in 0 .. NUM_SHARDS - 1 :
        Cardinality({n \in Used : shard_index(n) = i}) <= max_size \div NUM_SHARDS)
    => UniqueInstancePerKey

\* one shard holds eight keys, another shard one more, and a key of the full
\* shard was invoked again after that
C13_Witness ==
    /\ Cardinality({n \in Used : shard_index(n) = 0}) = max_size \div NUM_SHARDS
    /\ Cardinality(Used) = 1 + max_size \div NUM_SHARDS
    /\ calls > Cardinality(Used)

(***************************************************************************)
(* Properties of the client                                                *)
(***************************************************************************)
\* the sockets of the pool
Pooled == Range(_socket_pool)

\* C14: a socket on which a request failed (connect, send, receive, timeout,
\* peer close, decode) is closed and is not in the pool, and every socket
\* of the pool completed its last request with a response read in full.
C14_FailedSocketClosed ==
    /\ \A s \in 1 .. Len(socks) :
          socks[s].last = "failed" => socks[s].state = "closed" /\ s \notin Pooled
    /\ \A s \in Pooled : socks[s].last = "ok"

\* C15: once close() has returned, an invoke fails with the ClientClosed
\* error and neither borrows nor opens a socket.
C15_ClosedClientRaisesClientClosed ==
    [][\A t \in Threads :
          cpc = "returned" /\ tpc[t] = "idle" /\ tout'[t] # tout[t]
          => /\ tout'[t].raised = "ClientClosed"
             /\ tpc'[t] = "idle"
             /\ socks' = socks
             /\ _socket_pool' = _socket_pool]_vars

\* C16: when close() has returned and no request is in flight, the pool is
\* empty and no socket the client connected is open.
C16_NoLeakedSockets ==
    cpc = "returned" /\ (\A t \in Threads : tpc[t] = "idle")
    => /\ _socket_pool = <<>>
       /\ \A s \in 1 .. Len(socks) : socks[s].state # "open"

\* C17: no socket is held by two requests at once or held while it is in
\* the pool, and the response a caller reads answers the request it sent.
C17_ExclusiveSocket ==
    \A t \in Threads :
        /\ sock[t] # 0 => /\ sock[t] \notin Pooled
                          /\ \A u \in Threads \ {t} : sock[u] # sock[t]
        /\ tpc[t] \in {"return", "put"} => tout[t].of = tpayload[t]

\* two requests are in flight, one on a socket that came from the pool, and
\* one of them has read its response
C17_Witness ==
    \E t \in Threads : \E u \in Threads \ {t} :
        /\ tpc[t] = "return"
        /\ tpc[u] = "recv"
        /\ socks[sock[u]].last = "ok"

\* C18: after a request failed on a connection failure, the caller's next
\* call is made on a socket opened for it, not on one that was in the pool.
C18_NextCallOnFreshSocket ==
    \A t \in Threads :
        dropped[t] # 0 /\ tpc[t] \in {"send", "recv"}
        => socks[sock[t]].last = "none"

\* C18 (amended): after a request failed on a connection failure the error
\* is raised to the caller without a retry, and the socket is dropped: it
\* is not open, not in the pool and never used again, the caller's next
\* call included.
C18_FailedSocketDropped ==
    \A t \in Threads :
        dropped[t] # 0
        => /\ socks[dropped[t]].state # "open"
           /\ dropped[t] \notin Pooled
           /\ \A u \in Threads : sock[u] # dropped[t]
           /\ tpc[t] = "idle" => tout[t].raised = "RemoteExecutionError"

\* the next call of a caller whose request failed runs on a socket that
\* was in the pool
C18_Witness ==
    \E t \in Threads :
        /\ dropped[t] # 0
        /\ tpc[t] = "recv"
        /\ socks[sock[t]].last = "ok"

\* C19: a status error response is raised to the caller as a
\* RemoteExecutionError that shows the type the server gave, NotFound for an
\* endpoint that is not registered; a status ok response returns its result.
C19_ErrorTypePreserved ==
    \A t \in Threads :
        tpc[t] = "idle" /\ tout[t].got # NoResponse
        => /\ tout[t].got = handle_request(ServedTable, tout[t].of).response
           /\ tout[t].got.status = "error"
              => /\ tout[t].raised = "RemoteExecutionError"
                 /\ tout[t].type = tout[t].got.etype
                 /\ tout[t].of.endpoint \notin Range(ServedTable)
                    => tout[t].type = "NotFound"
           /\ tout[t].got.status = "ok"
              => /\ tout[t].raised = ""
                 /\ tout[t].result = tout[t].got.result

\* one caller got NotFound raised, the other a result returned
C19_Witness ==
    \E t \in Threads : \E u \in Threads \ {t} :
        /\ tpc[t] = "idle"
        /\ tout[t].type = "NotFound"
        /\ tpc[u] = "idle"
        /\ tout[u].got.status = "ok"
        /\ tout[u].result = IntValue(1)

(***************************************************************************)
(* Properties of the daemon supervisor                                     *)
(***************************************************************************)
\* C20: when run has raised because the name did not become resolvable in
\* time, the child is terminated, the handle of that run is neither the
\* builder's nor in _ACTIVE_DAEMONS, and the endpoint table is not frozen.
C20_TimeoutCleansUp ==
    rpc = "raised"
    => /\ daemons[Len(daemons)] = "dead"
       /\ Len(daemons) \notin _ACTIVE_DAEMONS
       /\ _handle # Len(daemons)
       /\ ~frozen

\* a second run timed out while the handle of the first, whose child had
\* ended by itself, is still listed; the table was frozen by run
C20_Witness ==
    /\ rpc = "raised"
    /\ Len(daemons) = 2
    /\ 1 \in _ACTIVE_DAEMONS

(***************************************************************************)
(* Properties of ServiceServer.stop                                        *)
(***************************************************************************)
\* C21: a stop that was called returns, whatever the client of an open
\* connection does, and then the registry has no entry of this process for
\* the service.
C21_StopCompletes ==
    (stop_pc = "shutdown") ~> (stop_pc = "returned" /\ owner # <<ParentPid>>)

(***************************************************************************)
(* Properties of _compute_worker_count                                     *)
(***************************************************************************)
\* the text is a decimal numeral: digits only
Numeral(t) == t # <<>> /\ \A i \in 1 .. Len(t) : DigitValue(t[i]) >= 0

\* the number a decimal numeral denotes
RECURSIVE NumeralValue(_)
NumeralValue(t) ==
    IF t = <<>> THEN 0
    ELSE 10 * NumeralValue(SubSeq(t, 1, Len(t) - 1)) + DigitValue(t[Len(t)])

\* C22: the pool size is META_WORKERS when that is a positive integer; when
\* it is absent, empty, not numeric, zero or negative it is
\* min(32, max(4, 2 x cores)); it is always at least 1.
C22_WorkerCount ==
    workers # -1 =>
        LET t == workers_env.text
            clamp == IF 2 * cpu < 4 THEN 4 ELSE IF 2 * cpu > 32 THEN 32 ELSE 2 * cpu
        IN  /\ workers >= 1
            /\ workers_env.set /\ Numeral(t) /\ NumeralValue(t) > 0
               => workers = NumeralValue(t)
            /\ \/ ~workers_env.set
               \/ t = <<>>
               \/ \E i \in 1 .. Len(t) : t[i] = "x"
               \/ Numeral(t) /\ NumeralValue(t) = 0
               \/ Head(t) = "-" /\ Numeral(Tail(t))
               => workers = clamp

\* a pool sized by META_WORKERS = "14", above what 2 cores would give
C22_Witness ==
    /\ workers = 14
    /\ workers_env.text = <<"1", "4">>
    /\ cpu = 2

C24_EvictsLeastRecentlyUsed ==
    [][\A i \in 0 .. NUM_SHARDS - 1 :
          LET old == Keys(cache_shards[i])
              new == Keys(cache_shards'[i])
          IN  new \ old # {} =>
                /\ \A j \in 0 .. NUM_SHARDS - 1 \ {i} :
                       cache_shards'[j] = cache_shards[j]
                /\ IF Cardinality(old) = shard_size
                     THEN \E a \in 1 .. Len(last_used) :
                              /\ old \ new = {last_used[a]}
                              /\ \A b \in 1 .. a - 1 : last_used[b] \notin old
                     ELSE old \ new = {}]_vars

\* a full shard whose first key was hit again has evicted its second key for
\* a ninth one
C24_Witness ==
    /\ Keys(cache_shards[0]) = {0, 21, 29, 45, 57, 73, 81, 102}
    /\ \E a, b \in 1 .. Len(last_used) :
           a < b /\ last_used[a] = 81 /\ last_used[b] = 0

\* C25: each of the 16 shards holds at most max(1, 128 // 16) instances, the
\* cache at most 16 times that, and every key is resident in at most one
\* shard, the one its hash selects, once.
C25_ShardsBounded ==
    LET cap == IF max_size \div 16 > 1 THEN max_size \div 16 ELSE 1
        Total[i \in 0 .. 16] ==
            IF i = 0 THEN 0 ELSE Total[i - 1] + Len(cache_shards[i - 1])
    IN  /\ DOMAIN cache_shards = 0 .. 15
        /\ \A i \in 0 .. 15 : Len(cache_shards[i]) <= cap
        /\ Total[16] <= 16 * cap
        /\ \A i \in 0 .. 15 :
               /\ \A a \in 1 .. Len(cache_shards[i]) :
                      shard_index(cache_shards[i][a][1]) = i
               /\ \A a, b \in 1 .. Len(cache_shards[i]) :
                      cache_shards[i][a][1] = cache_shards[i][b][1] => a = b

\* one shard is full and has evicted a key, another shard holds a key
C25_Witness ==
    /\ Len(cache_shards[0]) = max_size \div NUM_SHARDS
    /\ 102 \in Keys(cache_shards[0])
    /\ Len(cache_shards[1]) = 1

(***************************************************************************)
(* Properties of concurrent calls of one factory                           *)
(***************************************************************************)
\* the constructor of worker w ended in this step without a new instance
CtorRaised(w) ==
    wk[w].pc = "ctor" /\ wk'[w].pc = "idle" /\ instances' = instances

\* C26: a call whose constructor raises returns a status error response and
\* leaves the cache as it was: no entry is stored and no key evicted, so
\* that a key that was not cached is still not cached and the next call with
\* it runs the constructor again.
C26_FailedConstructionNotCached ==
    [][\A w \in PoolWorkers :
          CtorRaised(w) =>
            /\ reply'.response = Error("ValueError")
            /\ reply'.ctor_args.n = wk[w].key
            /\ cache_shards' = cache_shards]_vars

\* a constructor raised while the shard of its key was full
C26_Witness ==
    /\ reply.response = Error("ValueError")
    /\ Len(cache_shards[shard_index(reply.ctor_args.n)]) = shard_size
    /\ cached(cache_shards[shard_index(reply.ctor_args.n)], reply.ctor_args.n) = 0

\* C27: a call whose constructor arguments cannot be hashed is answered by a
\* status error response of type ArgError.
C27_UnhashableIsArgError ==
    reply.response # NoResponse /\ ~reply.ctor_args.hashable
        => reply.response = Error("ArgError")

\* the constructor of worker w ended in this step with a new instance
CtorReturned(w) ==
    wk[w].pc = "ctor" /\ wk'[w].pc = "idle" /\ instances' = instances + 1

\* a call found its key in the cache in this step
Hit ==
    calls' = calls + 1 /\ wk' = wk /\ reply'.response.status = "ok"

\* the instance cached for key n, 0 if there is none
Cached(shards, n) ==
    LET shard == shards[shard_index(n)]
    IN  IF cached(shard, n) = 0 THEN 0 ELSE shard[cached(shard, n)][2]

\* how many entries the key n has
Entries(shards, n) ==
    Cardinality({i \in 1 .. Len(shards[shard_index(n)]) :
                    shards[shard_index(n)][i][1] = n})

\* C29: of two concurrent misses on the same key the second insert wins:
\* after each insert there is exactly one entry for the key and it is the
\* instance inserted last, and a later lookup returns the cached instance.
C29_SecondInsertWins ==
    [][/\ \A w \in PoolWorkers :
             CtorReturned(w) =>
               /\ Cached(cache_shards', wk[w].key) = instances'
               /\ Entries(cache_shards', wk[w].key) = 1
       /\ Hit => reply'.instance = Cached(cache_shards, reply'.ctor_args.n)]_vars

\* C29 (amended): of two concurrent misses on the same key the first insert
\* wins: a constructor that ends when its key is cached stores nothing, so
\* that there is exactly one entry for the key, it is the instance inserted
\* first, and a later lookup returns the cached instance.
C29_FirstInsertWins ==
    [][/\ \A w \in PoolWorkers :
             CtorReturned(w) =>
               /\ Cached(cache_shards', wk[w].key) =
                      IF Cached(cache_shards, wk[w].key) # 0
                        THEN Cached(cache_shards, wk[w].key) ELSE instances'
               /\ Entries(cache_shards', wk[w].key) = 1
       /\ Hit => reply'.instance = Cached(cache_shards, reply'.ctor_args.n)]_vars

\* a call was served by the instance it constructed while the cache holds
\* the instance another worker had inserted before
C29_Witness ==
    /\ reply.instance # 0
    /\ Cached(cache_shards, reply.ctor_args.n) # 0
    /\ Cached(cache_shards, reply.ctor_args.n) < reply.instance

(***************************************************************************)
(* Properties of the cache key                                             *)
(***************************************************************************)
\* the constructor arguments of a call as sent, the keyword arguments in
\* ascending order of their names
Canonical(c) == <<keyed[c].ctor_args, sorted_items(keyed[c].ctor_kwargs)>>

\* C28: two calls with equal positional constructor arguments and the same
\* keyword name/value pairs in different orders map to the same key, the
\* same shard and the same instance; calls whose canonical forms differ map
\* to different keys, and so to different instances.
C28_KeyIsCanonicalForm ==
    keyed["first"].done /\ keyed["second"].done =>
        /\ (/\ keyed["first"].ctor_args = keyed["second"].ctor_args
            /\ Range(keyed["first"].ctor_kwargs) = Range(keyed["second"].ctor_kwargs))
           => /\ keyed["first"].key = keyed["second"].key
              /\ keyed["first"].shard = keyed["second"].shard
              /\ keyed["first"].instance = keyed["second"].instance
        /\ Canonical("first") # Canonical("second")
           => /\ ~key_eq(keyed["first"].key, keyed["second"].key)
              /\ keyed["first"].instance # keyed["second"].instance

(***************************************************************************)
(* Properties of the cleanup list of daemon handles                        *)
(***************************************************************************)
\* C30: every handle that run has returned is in _ACTIVE_DAEMONS for as long
\* as it is not stopped and is not in it once it is stopped; when the
\* at-exit hook has run, no handle in the list is unstopped.
C30_CleanupListHoldsUnstopped ==
    /\ \A h \in 1 .. Len(daemons) :
           ~(h = Len(daemons) /\ rpc \in {"await", "timeout"})
               => (h \in _ACTIVE_DAEMONS <=> h \notin stopped)
    /\ rpc = "exited" => _ACTIVE_DAEMONS \subseteq stopped

\* the hook has stopped a handle and another one is still in the list
C30_Witness ==
    /\ rpc = "atexit"
    /\ stopped # {}
    /\ _ACTIVE_DAEMONS # {}

(***************************************************************************)
(* Properties of the liveness probe                                        *)
(***************************************************************************)
\* C31: the liveness probe reports dead for every pid <= 0, alive for the
\* caller's own pid, alive when os.kill is answered with permission denied,
\* dead for any other error of os.kill, and alive when os.kill succeeds.
C31_LivenessProbe ==
    \A self \in Procs, pid \in -1 .. ForeignPid + 1 :
        procState[self] = "alive" =>
            /\ pid <= 0 => ~_is_process_alive(pid, self)
            /\ pid = self => _is_process_alive(pid, self)
            /\ (pid > 0 /\ pid # self) =>
                  /\ Probe(pid) = "PermissionError" => _is_process_alive(pid, self)
                  /\ Probe(pid) = "OSError" => ~_is_process_alive(pid, self)
                  /\ Probe(pid) = "ok" => _is_process_alive(pid, self)

\* a resolve probed the owner of an entry, a process that had ended, and was
\* answered with an error, while a probe of the process of another user is
\* answered with permission denied
C31_Witness ==
    /\ last.op = "resolve"
    /\ last.msg = "stale"
    /\ procState[1] = "dead"
    /\ ~_is_process_alive(1, last.by)
    /\ _is_process_alive(ForeignPid, last.by)
    /\ Probe(ForeignPid) = "PermissionError"

(***************************************************************************)
(* Properties of the freeze bit under daemons                              *)
(***************************************************************************)
\* C32: while a daemon that run has returned is running (its handle reports
\* is_running), the endpoint table of the parent is frozen, so that register
\* on it fails, until the process exits.
C32_FrozenWhileDaemonRuns ==
    rpc \notin {"atexit", "exited"} =>
        \A h \in _ACTIVE_DAEMONS : is_running(h) => frozen

(***************************************************************************)
(* Properties of run's wait for the child                                  *)
(***************************************************************************)
\* C33: when run returns a handle, the registry entry of the service name is
\* owned by the child of that handle.
C33_ReturnedHandleOwnsEntry ==
    [][(rpc = "await" /\ rpc' = "returned") => owner' = <<_handle'>>]_vars

(***************************************************************************)
(* Properties of the receiver of a frame                                   *)
(***************************************************************************)
\* C34: however the transport splits the byte stream, a read of part of the
\* 4-byte length prefix does not fail the connection, and the length the
\* server then reads the payload by is the one the prefix encodes.
C34_SplitPrefixAssembled ==
    [][/\ (spc = "recv_len" /\ rpos' > rpos) => spc' # "closed"
       /\ (spc = "recv_len" /\ spc' = "data") =>
              message_length' = unpack_I(SubSeq(Stream(sent), rpos + 1, rpos + 4))]_vars

(***************************************************************************)
(* Properties of the host of a daemon                                      *)
(***************************************************************************)
\* C35: the record a daemon child publishes carries the host given at
\* create, and the default loopback host only when no host (None or an empty
\* text) was given.
C35_ChildPublishesConfiguredHost ==
    \A p \in published :
        p[2] = IF host_arg \in {None, ""} THEN DEFAULT_HOST ELSE host_arg
====
